---------------------------- MODULE Spec2Model ----------------------------
(***************************************************************************)
(* A model of the WinterStream backend (src/backend): the WebSocket        *)
(* ConnectionManager, the transcript/metadata store of YouTubeService and  *)
(* the tool-calling question loop of AgentService.                         *)
(*                                                                         *)
(* The backend runs on one asyncio event loop.  Code between two awaits    *)
(* is atomic, so every action below is one such block: it starts where a   *)
(* coroutine is resumed and ends at its next await (or its return).        *)
(***************************************************************************)
EXTENDS Integers, Sequences, FiniteSets, TLC

(***************************************************************************)
(* Bounds of the model.                                                    *)
(***************************************************************************)
MaxHandles == 3
MaxBroadcasts == 1

MaxSegments == 3

MaxRequests == 2
MaxActionsPerStep == 2
MaxToolCalls == 2
MaxAudio == 3
MaxTasks == 3
MaxChecks == 2
MaxResults == 2

\* AgentExecutor(max_iterations=10)
MaxIterations == 10

\* config.py
TRANSCRIPT_WINDOW_SECONDS == 30

\* start_live_monitoring(video_id, check_interval=30)
CHECK_INTERVAL == 30

Handles == 1..MaxHandles
Calls == 1..MaxBroadcasts

\* Optional[...] values.
None == [some |-> FALSE, v |-> ""]
Some(v) == [some |-> TRUE, v |-> v]

\* Video ids: "v1" is a video that gets loaded, "v2" one the store never saw.
VideoIds == {"v1", "v2"}

VARIABLES
    \* ---- main.py, ConnectionManager ----
    active_connections, \* ConnectionManager.active_connections: Set[WebSocket]
    socket_state,       \* per WebSocket object: "new", "open" (endpoint coroutine alive), "closed"
    received,           \* per WebSocket: the broadcast calls whose message it was sent successfully
    bpc,                \* per broadcast call: "idle", "sending", "done", "raised"
    biter,              \* per broadcast call: the set iterator of `for connection in self.active_connections`
    bcur,               \* per broadcast call: `connection`, the handle whose send_json is awaited
    disconnected,       \* per broadcast call: the local list `disconnected`
    blog,               \* per broadcast call: what the call did (for the properties only)
    \* ---- services/youtube_service.py, YouTubeService ----
    transcripts,        \* YouTubeService._transcripts: video id -> list of TranscriptEntry
    transcript_ids,     \* video id -> which list object _transcripts holds under it
    video_metadata,     \* YouTubeService._video_metadata: video id -> metadata dict
    yt_reply,           \* what the last YouTubeService call returned to its caller
    \* ---- services/agent_service.py ----
    pushed_cards_tracker, \* the module global _pushed_cards_tracker (membership is all the code reads)
    exa_result_cache,   \* the module global _exa_result_cache
    apc,                \* per request: where its answer_question coroutine is suspended
    areq,               \* per request: the arguments of answer_question
    iterations,         \* per request: AgentExecutor's iteration counter
    intermediate_steps, \* per request: number of (action, observation) records of the loop
    called,             \* per request: the tool names in intermediate_steps
    pending,            \* per request: the tool calls of the current (or last) step: how far each
                        \* is (st), its observation (obs) and, for the properties only, how many
                        \* calls with its key the request made before (nth) and whether it called
                        \* manager.broadcast (bcast)
    result,             \* per request: what answer_question returned
    alog,               \* per request: what its push_info_card calls did (for the properties only)
    \* ---- services/elevenlabs_service.py, ElevenLabsService ----
    audio_cache,        \* ElevenLabsService._audio_cache: audio id -> bytes
    uuid_next,          \* how many ids uuid.uuid4() has handed out
    audio_reply,        \* what the last call of the audio service or endpoint returned
    \* ---- services/agent_service.py, the live monitor ----
    live_monitoring_task, \* the module global _live_monitoring_task: a task or NoTask
    tasks,              \* per asyncio task running start_live_monitoring: where it is suspended
                        \* (pc), its video_id, whether cancel() was called on it and not yet
                        \* delivered (cancelled), check_count, and during a broadcast the
                        \* number of handles still to be sent to (to_send)
    mlog,               \* per task: who cancelled it, how many handles its interrupted broadcast
                        \* never attempted, check_count of its first failed iteration
                        \* (for the properties only; what is about a running task is
                        \* forgotten when the task is done)
    \* ---- services/agent_service.py, proactive research ----
    video_context_cache, \* the module global _video_context_cache: video id -> summary
    plog,               \* the last call of proactive_video_research: its arguments, the
                        \* searches it issued, whether it raised (for the properties only)
    \* ---- main.py, ConnectionManager.send_message ----
    send_failed,        \* the handles to which a send_message failed (for the properties only)
    send_returned,      \* the last call of send_message: whether its send succeeded and the
                        \* value the call returned
    \* ---- main.py, load_video ----
    ws,                 \* per handle: the QUESTION branch of websocket_events for that socket:
                        \* where it is, the question, the events it has sent, in order
    load,               \* the last call of load_video: its url, where it is, its response,
                        \* the fetches it made and the tasks it started, and the stores as
                        \* they were when it was called (for the properties only)
    \* ---- services/agent_service.py, the tools of a request ----
    tctx,               \* what _setup_context_tools bound: video_id, playback_time, screenshot_base64
    tools_list,         \* the names of the tools _setup_context_tools returned
    tool_reply,         \* the last tool invocation: the tool, whether its collaborator failed,
                        \* whether it raised, and the observation it returned (its lines)
    last_card,          \* the last card broadcast as PUSH_COMMENTARY and the path that built it
    \* ---- main.py, ask_question ----
    hpc,                \* per request: where its ask_question handler is suspended
    hreq,               \* per request: the QuestionRequest
    hevents,            \* per request: the event types the handler has broadcast, in order
    hresp,              \* per request: the QuestionResponse or the error of the handler
    hlog,               \* per request: what the synthesis call did (for the properties only)
    audio_log           \* what was put under each id and which of these ids were removed since (for the properties only)

regVars == <<active_connections, socket_state, received, bpc, biter, bcur, disconnected, blog>>

ytVars == <<transcripts, transcript_ids, video_metadata, yt_reply>>

agentVars == <<pushed_cards_tracker, exa_result_cache, apc, areq, iterations,
               intermediate_steps, called, pending, result, alog>>

audioVars == <<audio_cache, uuid_next, audio_reply, audio_log>>

askVars == <<hpc, hreq, hevents, hresp, hlog>>

monVars == <<live_monitoring_task, tasks, mlog>>

proVars == <<video_context_cache, plog>>

sendVars == <<send_failed, send_returned>>

toolVars == <<tctx, tools_list, tool_reply, last_card>>

loadVars == <<load>>

wsVars == <<ws>>

vars == <<regVars, ytVars, agentVars, audioVars, askVars, monVars, proVars, sendVars, toolVars, loadVars, wsVars>>

\* What the actions of one component leave alone.
notReg == <<ytVars, agentVars, audioVars, askVars, monVars, proVars, sendVars, toolVars, loadVars, wsVars>>
notYt == <<regVars, agentVars, audioVars, askVars, monVars, proVars, sendVars, toolVars, loadVars, wsVars>>
notAgent == <<regVars, transcripts, transcript_ids, yt_reply, audioVars, askVars, monVars, proVars, sendVars, toolVars, loadVars, wsVars>>
notAudio == <<regVars, ytVars, agentVars, askVars, monVars, proVars, sendVars, toolVars, loadVars, wsVars>>
notAsk == <<regVars, ytVars, agentVars, monVars, proVars, sendVars, toolVars, loadVars, wsVars>>
notMon == <<regVars, ytVars, agentVars, audioVars, askVars, proVars, sendVars, toolVars, loadVars, wsVars>>
notPro == <<regVars, ytVars, audioVars, askVars, monVars, sendVars, toolVars, loadVars, wsVars>>
notSend == <<regVars, ytVars, agentVars, audioVars, askVars, monVars, proVars, toolVars, loadVars, wsVars>>
notTool == <<regVars, ytVars, agentVars, audioVars, askVars, monVars, proVars, sendVars, loadVars, wsVars>>
notLoad == <<regVars, agentVars, audioVars, askVars, monVars, proVars, sendVars, toolVars, wsVars>>

NoHandle == 0

(***************************************************************************)
(* ConnectionManager                                                       *)
(***************************************************************************)

\* CPython's set iterator (setiter_iternext): it remembers the size of the
\* set when it was created (si_used) and walks the hash table by slot
\* position (si_pos).  A WebSocket object hashes by identity, so its slot is
\* fixed for its lifetime; the model numbers the handles by their slot.
NewIter(s) == [si_used |-> Cardinality(s), si_pos |-> 0]

\* The members the iterator has not passed yet.
Ahead(it) == {h \in active_connections : h > it.si_pos}

\* The entry the iterator yields next: the first occupied slot after si_pos.
FirstAhead(it) == CHOOSE h \in Ahead(it) : \A g \in Ahead(it) : h <= g

\* Calls suspended inside the for loop, at `await connection.send_json(...)`.
InFlight == {c \in Calls : bpc[c] = "sending"}

\* A call that has just returned ("done") or raised: its caller continues in
\* the same atomic block, so nothing else runs before broadcast_return.
Ending == {c \in Calls : bpc[c] \in {"done", "raised"}}

\* A registry operation (or a step of another broadcast) ran while the calls
\* of `cs` were suspended.
Interleaved(cs, log) ==
    [c \in Calls |-> IF c \in cs THEN [log[c] EXCEPT !.alone = FALSE] ELSE log[c]]

\* ConnectionManager.connect: after accept(), add the socket to the set.
connect(h) ==
    /\ Ending = {}
    /\ socket_state[h] = "new"
    /\ socket_state' = [socket_state EXCEPT ![h] = "open"]
    /\ active_connections' = active_connections \cup {h}
    /\ blog' = Interleaved(InFlight, blog)
    /\ UNCHANGED <<received, bpc, biter, bcur, disconnected>>
    /\ UNCHANGED notReg

\* ConnectionManager.disconnect, called by the endpoint coroutine of the
\* socket when its receive loop ends (main.py 607-611, 649-653).
disconnect(h) ==
    /\ Ending = {}
    /\ socket_state[h] = "open"
    /\ socket_state' = [socket_state EXCEPT ![h] = "closed"]
    /\ active_connections' = active_connections \ {h}
    /\ blog' = Interleaved(InFlight, blog)
    /\ UNCHANGED <<received, bpc, biter, bcur, disconnected>>
    /\ UNCHANGED notReg

\* list -> the set of its elements
Range(seq) == {seq[i] : i \in 1..Len(seq)}

\* The second loop of broadcast: `for conn in disconnected: discard(conn)`.
PruneKeepAll(act, disc) == act

Prune(act, disc) == act \ Range(disc)

\* The for statement of broadcast asks the iterator for the next handle:
\* "raise" (RuntimeError: Set changed size during iteration), "stop", or
\* "yield" with the handle.
SetIterNext(it) ==
    IF it.si_used # Cardinality(active_connections)
    THEN [kind |-> "raise", h |-> NoHandle]
    ELSE IF Ahead(it) = {} THEN [kind |-> "stop", h |-> NoHandle]
    ELSE [kind |-> "yield", h |-> FirstAhead(it)]

\* One turn of `for connection in self.active_connections` for call c, given
\* the iterator `it` and the values `disc` and `log` the call has just
\* computed: __next__, then either the loop body up to its await, or the
\* code after the loop up to the return.
LoopTurn(c, it, disc, log) ==
    LET nx == SetIterNext(it)
        seen == Interleaved(InFlight \ {c}, log)
    IN  /\ disconnected' = [disconnected EXCEPT ![c] = disc]
        /\ blog' = IF nx.kind = "yield"
                   THEN [seen EXCEPT ![c].attempts[nx.h] = @ + 1]
                   ELSE seen
        /\ CASE nx.kind = "raise" ->
                \* raised by the for statement itself, outside the try block:
                \* the call ends here and prunes nothing
                /\ bpc' = [bpc EXCEPT ![c] = "raised"]
                /\ biter' = [biter EXCEPT ![c] = it]
                /\ UNCHANGED <<active_connections, bcur>>
             [] nx.kind = "stop" ->
                /\ active_connections' = Prune(active_connections, disc)
                /\ bpc' = [bpc EXCEPT ![c] = "done"]
                /\ biter' = [biter EXCEPT ![c] = it]
                /\ UNCHANGED bcur
             [] nx.kind = "yield" ->
                /\ biter' = [biter EXCEPT ![c] = [it EXCEPT !.si_pos = nx.h]]
                /\ bcur' = [bcur EXCEPT ![c] = nx.h]
                /\ bpc' = [bpc EXCEPT ![c] = "sending"]
                /\ UNCHANGED active_connections

\* ConnectionManager.broadcast, from the call to its first await (or to its
\* return when nobody is registered).
broadcast_start(c) ==
    /\ Ending = {}
    /\ bpc[c] = "idle"
    /\ LoopTurn(c, NewIter(active_connections), <<>>,
                [blog EXCEPT ![c].start = active_connections,
                             ![c].alone = (InFlight = {})])
    /\ UNCHANGED <<socket_state, received>>
    /\ UNCHANGED notReg

\* `await connection.send_json(...)` completes for call c: normally, or with
\* an exception that the try block catches.
broadcast_sent(c, ok) ==
    /\ Ending = {}
    /\ bpc[c] = "sending"
    /\ LET h == bcur[c]
       IN  /\ received' = [received EXCEPT ![h] = IF ok THEN @ \cup {c} ELSE @]
           /\ LoopTurn(c, biter[c],
                       IF ok THEN disconnected[c] ELSE Append(disconnected[c], h),
                       blog)
    /\ UNCHANGED socket_state
    /\ UNCHANGED notReg

NoLog == [start |-> {}, alone |-> TRUE, attempts |-> [h \in Handles |-> 0]]

\* The caller of broadcast takes the result (or the exception); the frame of
\* the call is gone.
broadcast_return(c) ==
    /\ c \in Ending
    /\ bpc' = [bpc EXCEPT ![c] = "idle"]
    /\ biter' = [biter EXCEPT ![c] = NewIter({})]
    /\ bcur' = [bcur EXCEPT ![c] = NoHandle]
    /\ disconnected' = [disconnected EXCEPT ![c] = <<>>]
    /\ blog' = [blog EXCEPT ![c] = NoLog]
    /\ received' = [h \in Handles |-> received[h] \ {c}]
    /\ UNCHANGED <<active_connections, socket_state>>
    /\ UNCHANGED notReg

\* The registry when every broadcast runs alone: no connect, disconnect or
\* other broadcast begins while a call is suspended at a send.
connect_alone(h) == InFlight = {} /\ connect(h)
disconnect_alone(h) == InFlight = {} /\ disconnect(h)
broadcast_start_alone(c) == InFlight = {} /\ broadcast_start(c)

NextAlone ==
    \/ \E h \in Handles : connect_alone(h)
    \/ \E h \in Handles : disconnect_alone(h)
    \/ \E c \in Calls : broadcast_start_alone(c)
    \/ \E c \in Calls, ok \in BOOLEAN : broadcast_sent(c, ok)
    \/ \E c \in Calls : broadcast_return(c)

\* ConnectionManager.send_message(websocket, message), called by the
\* endpoint coroutine of the socket: the send succeeds, or its exception is
\* caught and printed.  Either way the registry is left as it is.
\* What `await manager.send_message(...)` evaluates to: the function has no
\* return statement on either path.
send_message_result(ok) == None

\* What `await manager.broadcast(...)` evaluates to when the loop and the
\* pruning are over: no return statement either.
broadcast_result(delivered) == None

NoSend == [called |-> FALSE, ok |-> FALSE, value |-> None]

send_message(h, ok) ==
    /\ Ending = {}
    /\ socket_state[h] = "open"
    /\ send_failed' = IF ok THEN send_failed ELSE send_failed \cup {h}
    /\ send_returned' = [called |-> TRUE, ok |-> ok, value |-> send_message_result(ok)]
    /\ UNCHANGED notSend

InitSend == send_failed = {} /\ send_returned = NoSend

NextSend ==
    \/ \E h \in Handles : connect(h)
    \/ \E h \in Handles : disconnect(h)
    \/ \E c \in Calls : broadcast_start(c)
    \/ \E c \in Calls, ok \in BOOLEAN : broadcast_sent(c, ok)
    \/ \E c \in Calls : broadcast_return(c)
    \/ \E h \in Handles, ok \in BOOLEAN : send_message(h, ok)

\* A slow connection: the handle whose send_json never completes.
SlowHandle == 2

\* `await connection.send_json(...)` completes, for a handle that is not slow.
broadcast_sent_others(c, ok) ==
    /\ bcur[c] # SlowHandle
    /\ broadcast_sent(c, ok)

\* The registry when the sends to SlowHandle never complete.
NextSlow ==
    \/ \E h \in Handles : connect(h)
    \/ \E h \in Handles : disconnect(h)
    \/ \E c \in Calls : broadcast_start(c)
    \/ \E c \in Calls, ok \in BOOLEAN : broadcast_sent_others(c, ok)
    \/ \E c \in Calls : broadcast_return(c)

\* Every send to a handle that is not slow completes, and every caller of
\* broadcast takes its result.
FairSlow ==
    /\ \A c \in Calls : WF_vars(\E ok \in BOOLEAN : broadcast_sent_others(c, ok))
    /\ \A c \in Calls : WF_vars(broadcast_return(c))

\* C20: in a broadcast to two or more registered handles, a send to one
\* handle that never completes does not prevent delivery to the others:
\* every other handle registered when the call began is eventually sent the
\* event (or has left the registry, or the call has ended).
C20_SlowDoesNotBlockOthers ==
    \A c \in Calls, h \in Handles \ {SlowHandle} :
        (bpc[c] = "sending" /\ bcur[c] = SlowHandle /\ h \in blog[c].start)
            ~> (blog[c].attempts[h] > 0 \/ h \notin active_connections \/ bpc[c] # "sending")

\* C21: after a failed delivery to a handle, through send_message or
\* through a broadcast that has ended, the handle is not a member of the
\* registry.
C21_FailedHandleNotMember ==
    /\ \A h \in send_failed : h \notin active_connections
    /\ \A c \in Ending : \A i \in 1..Len(disconnected[c]) :
            disconnected[c][i] \notin active_connections

\* The part of C21 about broadcast, for a call that returns normally.
FailedInBroadcastNotMember ==
    \A c \in Calls : bpc[c] = "done" =>
        \A i \in 1..Len(disconnected[c]) : disconnected[c][i] \notin active_connections

(***************************************************************************)
(* YouTubeService: the transcript store and the metadata store             *)
(***************************************************************************)

\* TranscriptEntry(start, duration, text).  Times are whole seconds.
Entry(s, d, t) == [start |-> s, duration |-> d, text |-> t]

\* The entries the model stores.
EntryPool ==
    { Entry(0, 10, "a"), Entry(40, 5, "b"), Entry(44, 10, "c"),
      Entry(10, 10, "d"), Entry(65, 5, "e") }

\* The playback positions and window lengths the model asks for.
CenterTimes == {-5, 20, 45, 70}
WindowLengths == {10, 30}

\* The transcripts the model stores in one piece: captions as the platform
\* serves them, at most MaxSegments entries in the order of their start.
\* Lists in any other order arise from live appends.
FetchedTranscripts ==
    {l \in UNION {[1..k -> EntryPool] : k \in 0..MaxSegments} :
        \A i \in 1..Len(l) : \A j \in 1..Len(l) :
            i < j => l[i].start < l[j].start}

\* What oEmbed and the watch page can give for a video.
Titles == {"Winter Olympics Event", ""}
Authors == {"Unknown", ""}
Descriptions == {"", "Live from Sochi"}

Max(a, b) == IF a >= b THEN a ELSE b

\* dict.get(key, default)
DictGet(d, k, default) == IF k \in DOMAIN d THEN d[k] ELSE default

\* dict[key] = value
DictSet(d, k, v) == [x \in DOMAIN d \cup {k} |-> IF x = k THEN v ELSE d[x]]

\* The condition of the list comprehension of get_transcript_window.
InWindowNoOverlap(entry, start_time, end_time) ==
    start_time <= entry.start /\ entry.start <= end_time

InWindow(entry, start_time, end_time) ==
    \/ (start_time <= entry.start /\ entry.start <= end_time)
    \/ (entry.start <= start_time /\ entry.start + entry.duration >= start_time)

\* [entry for entry in transcript if ...], in list order.
RECURSIVE Comprehension(_, _, _)
Comprehension(transcript, start_time, end_time) ==
    IF transcript = <<>> THEN <<>>
    ELSE LET entry == Head(transcript)
             rest == Comprehension(Tail(transcript), start_time, end_time)
         IN  IF InWindow(entry, start_time, end_time)
             THEN <<entry>> \o rest
             ELSE rest

\* YouTubeService.get_transcript_window
get_transcript_window(video_id, current_time, window_seconds) ==
    LET transcript == DictGet(transcripts, video_id, <<>>)
    IN  IF transcript = <<>> THEN <<>>
        ELSE Comprehension(transcript,
                           Max(0, current_time - window_seconds),
                           current_time)

\* f"{seconds:02d}"
Format02d(n) == IF n < 10 THEN "0" \o ToString(n) ELSE ToString(n)

\* f"[{minutes}:{seconds:02d}] {entry.text}" with minutes = int(start // 60)
\* and seconds = int(start % 60)
FormatEntry(entry) ==
    "[" \o ToString(entry.start \div 60) \o ":" \o Format02d(entry.start % 60)
        \o "] " \o entry.text

\* The window of get_context_text
TRANSCRIPT_CONTEXT_SECONDS == 30

\* `if context_parts:` of get_context_text
HasPartsAlways(context_parts) == TRUE

HasParts(context_parts) == context_parts # <<>>

\* YouTubeService.get_context_text.  The text it returns is modelled as the
\* sequence of its lines (the string is the lines joined by "\n").
get_context_text(video_id, current_time) ==
    LET transcript_entries ==
            get_transcript_window(video_id, current_time, TRANSCRIPT_CONTEXT_SECONDS)
        metadata == DictGet(video_metadata, video_id, [x \in {} |-> ""])
        part(label, key) ==
            IF DictGet(metadata, key, "") # ""
            THEN <<label \o metadata[key]>> ELSE <<>>
        context_parts == part("Video Title: ", "title")
                            \o part("Channel: ", "author")
                            \o part("Description: ", "description")
    IN  IF transcript_entries # <<>>
        THEN <<"Recent commentary transcript:">>
                \o [i \in 1..Len(transcript_entries) |->
                        FormatEntry(transcript_entries[i])]
        ELSE IF DOMAIN metadata # {} /\ HasParts(context_parts)
        THEN <<"Video information (no transcript available):">> \o context_parts
        ELSE <<"No transcript or video information available.">>

NoReply == [op |-> "none"]

\* A list object that no other key of _transcripts holds: the first number
\* that names none of them.
NewList(video_id) ==
    LET used == {transcript_ids[v] : v \in DOMAIN transcript_ids \ {video_id}}
    IN  CHOOSE n \in 1..(Cardinality(used) + 1) :
            n \notin used /\ \A m \in 1..(n - 1) : m \in used

\* list.append(entry) on the list object held under video_id: every key
\* that holds the same object shows the new entry.
ListAppend(video_id, entry) ==
    IF video_id \notin DOMAIN transcripts
    THEN DictSet(transcripts, video_id, <<entry>>)
    ELSE [v \in DOMAIN transcripts |->
            IF transcript_ids[v] = transcript_ids[video_id]
            THEN Append(transcripts[v], entry) ELSE transcripts[v]]

\* YouTubeService.store_transcript: the dict holds the caller's list object
\* itself.  Here the caller passes a list it has just built.
store_transcript(video_id, entries) ==
    /\ yt_reply = NoReply
    /\ transcripts' = DictSet(transcripts, video_id, entries)
    /\ transcript_ids' = DictSet(transcript_ids, video_id, NewList(video_id))
    /\ yt_reply' = NoReply
    /\ UNCHANGED video_metadata
    /\ UNCHANGED notYt

\* YouTubeService.add_live_transcript_entry
add_live_transcript_entry(video_id, entry) ==
    /\ yt_reply = NoReply
    /\ Len(DictGet(transcripts, video_id, <<>>)) < MaxSegments
    /\ transcripts' = ListAppend(video_id, entry)
    /\ transcript_ids' = IF video_id \in DOMAIN transcript_ids THEN transcript_ids
                          ELSE DictSet(transcript_ids, video_id, NewList(video_id))
    /\ yt_reply' = NoReply
    /\ UNCHANGED video_metadata
    /\ UNCHANGED notYt

\* YouTubeService.get_video_metadata: whatever the two fetches gave (their
\* failures leave the defaults), the metadata is stored and returned.
get_video_metadata(video_id, title, author, description) ==
    LET metadata == [video_id |-> video_id, title |-> title, author |-> author,
                     description |-> description, thumbnail |-> ""]
    IN  /\ video_metadata' = DictSet(video_metadata, video_id, metadata)
        /\ yt_reply' = [op |-> "get_video_metadata", video_id |-> video_id,
                        result |-> metadata]
        /\ UNCHANGED <<transcripts, transcript_ids>>
        /\ UNCHANGED notYt

\* A caller asks for the window of a video.
call_get_transcript_window(video_id, current_time, window_seconds) ==
    /\ yt_reply = NoReply
    /\ yt_reply' = [op |-> "get_transcript_window", video_id |-> video_id,
                    current_time |-> current_time,
                    window_seconds |-> window_seconds,
                    result |-> get_transcript_window(video_id, current_time,
                                                     window_seconds)]
    /\ UNCHANGED <<transcripts, transcript_ids, video_metadata>>
    /\ UNCHANGED notYt

\* A caller asks for the context text of a video.
call_get_context_text(video_id, current_time) ==
    /\ yt_reply = NoReply
    /\ yt_reply' = [op |-> "get_context_text", video_id |-> video_id,
                    current_time |-> current_time,
                    result |-> get_context_text(video_id, current_time)]
    /\ UNCHANGED <<transcripts, transcript_ids, video_metadata>>
    /\ UNCHANGED notYt

\* The caller takes what the call returned.  The methods are synchronous,
\* so the calls of the model follow each other: the next one begins when
\* the result of the last one has been taken.
yt_return ==
    /\ yt_reply # NoReply
    /\ yt_reply' = NoReply
    /\ UNCHANGED <<transcripts, transcript_ids, video_metadata>>
    /\ UNCHANGED notYt

InitYouTube ==
    /\ transcripts = [v \in {} |-> <<>>]
    /\ transcript_ids = [v \in {} |-> 0]
    /\ video_metadata = [v \in {} |-> <<>>]
    /\ yt_reply = NoReply

NextYouTube ==
    \/ \E entries \in FetchedTranscripts : store_transcript("v1", entries)
    \/ \E entry \in EntryPool : add_live_transcript_entry("v1", entry)
    \/ \E t \in Titles, a \in Authors, d \in Descriptions :
            get_video_metadata("v1", t, a, d)
    \/ \E v \in VideoIds, t \in CenterTimes, w \in WindowLengths :
            call_get_transcript_window(v, t, w)
    \/ \E v \in VideoIds, t \in CenterTimes : call_get_context_text(v, t)
    \/ yt_return

InitRegistry ==
    /\ active_connections = {}
    /\ socket_state = [h \in Handles |-> "new"]
    /\ received = [h \in Handles |-> {}]
    /\ bpc = [c \in Calls |-> "idle"]
    /\ biter = [c \in Calls |-> NewIter({})]
    /\ bcur = [c \in Calls |-> NoHandle]
    /\ disconnected = [c \in Calls |-> <<>>]
    /\ blog = [c \in Calls |-> NoLog]

NextRegistry ==
    \/ \E h \in Handles : connect(h)
    \/ \E h \in Handles : disconnect(h)
    \/ \E c \in Calls : broadcast_start(c)
    \/ \E c \in Calls, ok \in BOOLEAN : broadcast_sent(c, ok)
    \/ \E c \in Calls : broadcast_return(c)

(***************************************************************************)
(* Properties of ConnectionManager                                         *)
(***************************************************************************)

\* The handles call c delivered to, and those whose send failed.
Delivered(c) == {h \in Handles : c \in received[h]}
Failed(c) == {disconnected[c][i] : i \in 1..Len(disconnected[c])}

\* C27: broadcast returns the number of handles to which delivery
\* succeeded, and send_message returns a result that tells success from
\* failure.
C27_ReturnsTellTheOutcome ==
    /\ \A c \in Calls : bpc[c] = "done" =>
            /\ broadcast_result(Cardinality(Delivered(c))).some
            /\ broadcast_result(Cardinality(Delivered(c))).v = Cardinality(Delivered(c))
    /\ send_returned.called =>
            send_returned.value # send_message_result(~send_returned.ok)

\* C1: a broadcast that runs with no other registry operation interleaved
\* returns normally, has attempted every handle registered at its start
\* exactly once and no other handle, has delivered to every handle whose send
\* succeeded, and at its return the registry holds exactly the handles of
\* its start whose send did not fail.
C1_BroadcastAlone ==
    \A c \in Calls :
        (c \in Ending /\ blog[c].alone) =>
            /\ bpc[c] = "done"
            /\ \A h \in Handles :
                  blog[c].attempts[h] = IF h \in blog[c].start THEN 1 ELSE 0
            /\ Delivered(c) \cup Failed(c) = blog[c].start
            /\ Delivered(c) \cap Failed(c) = {}
            /\ active_connections = blog[c].start \ Failed(c)

\* C1, its case: three registered handles, the send to the second one fails.
C1_Witness ==
    \E c \in Calls :
        /\ bpc[c] = "done"
        /\ blog[c].alone
        /\ blog[c].start = {1, 2, 3}
        /\ Failed(c) = {2}
        /\ Delivered(c) = {1, 3}
        /\ active_connections = {1, 3}

\* C2: under every interleaving of connect, disconnect and other broadcasts
\* at a broadcast's awaits, the broadcast never raises to its caller and has
\* attempted every handle that stayed registered during the whole call (a
\* socket registers once, so these are the handles registered at its start
\* and still registered at its return).
C2_BroadcastSafeUnderInterleaving ==
    \A c \in Calls :
        /\ bpc[c] # "raised"
        /\ bpc[c] = "done" =>
              \A h \in blog[c].start \cap active_connections :
                  blog[c].attempts[h] >= 1

(***************************************************************************)
(* Properties of YouTubeService                                            *)
(***************************************************************************)

\* The selection rule of the specification, for centre t and window w.
C6_Rule(s, t, w) ==
    LET lo == IF t - w > 0 THEN t - w ELSE 0
    IN  \/ (lo <= s.start /\ s.start <= t)
        \/ (s.start <= lo /\ s.start + s.duration >= lo)

\* res is the list of the entries of `stored` at the indices `idx`, in the
\* order of `stored`.
C6_Picks(res, stored, idx) ==
    /\ Len(res) = Cardinality(idx)
    /\ \E f \in [1..Len(res) -> idx] :
          /\ \A i \in 1..Len(res) : \A j \in 1..Len(res) : i < j => f[i] < f[j]
          /\ \A i \in 1..Len(res) : res[i] = stored[f[i]]

\* C6: window(video_id, t, w) returns, in stored order, exactly the stored
\* segments that satisfy the rule; the empty list for a video id with no
\* stored transcript; and <<b, c>> for the segments (0,10,a), (40,5,b),
\* (44,10,c) with t = 45 and w = 30.
C6_WindowRule ==
    yt_reply.op = "get_transcript_window" =>
        LET v == yt_reply.video_id
            t == yt_reply.current_time
            w == yt_reply.window_seconds
            stored == IF v \in DOMAIN transcripts THEN transcripts[v] ELSE <<>>
            idx == {i \in 1..Len(stored) : C6_Rule(stored[i], t, w)}
        IN  /\ C6_Picks(yt_reply.result, stored, idx)
            /\ v \notin DOMAIN transcripts => yt_reply.result = <<>>
            /\ ( /\ stored = <<Entry(0, 10, "a"), Entry(40, 5, "b"), Entry(44, 10, "c")>>
                 /\ t = 45
                 /\ w = 30 )
               => yt_reply.result = <<Entry(40, 5, "b"), Entry(44, 10, "c")>>

\* C6, its case: the example of the specification has been asked for.
C6_Witness ==
    /\ yt_reply.op = "get_transcript_window"
    /\ yt_reply.video_id = "v1"
    /\ "v1" \in DOMAIN transcripts
    /\ transcripts["v1"] = <<Entry(0, 10, "a"), Entry(40, 5, "b"), Entry(44, 10, "c")>>
    /\ yt_reply.current_time = 45
    /\ yt_reply.window_seconds = 30
    /\ Len(yt_reply.result) = 2

\* The line '[m:ss] text' of a segment.
C7_Line(s) ==
    "[" \o ToString(s.start \div 60) \o ":"
        \o ToString((s.start % 60) \div 10) \o ToString((s.start % 60) % 10)
        \o "] " \o s.text

C7_Sentinel == "No transcript or video information available."

\* The line of a metadata field in the synthesized description.
C7_FieldLine(md, k) ==
    (CASE k = "title" -> "Video Title: "
       [] k = "author" -> "Channel: "
       [] k = "description" -> "Description: ") \o md[k]

\* C7: context_text has exactly three outcomes.  With a non-empty 30-second
\* window: one '[m:ss] text' line per window segment (after a heading).
\* Otherwise, with at least one of title, author, description present in the
\* stored metadata: a description with exactly the present fields.
\* Otherwise the fixed sentinel.  The text is never empty.
C7_ContextText ==
    yt_reply.op = "get_context_text" =>
        LET v == yt_reply.video_id
            t == yt_reply.current_time
            res == yt_reply.result
            stored == IF v \in DOMAIN transcripts THEN transcripts[v] ELSE <<>>
            win == SelectSeq(stored, LAMBDA s : C6_Rule(s, t, 30))
            fields == {"title", "author", "description"}
            present == IF v \in DOMAIN video_metadata
                       THEN {k \in fields : video_metadata[v][k] # ""}
                       ELSE {}
        IN  /\ res # <<>>
            /\ \A i \in 1..Len(res) : res[i] # ""
            /\ IF win # <<>>
               THEN /\ Len(res) = Len(win) + 1
                    /\ \A i \in 1..Len(win) : res[i + 1] = C7_Line(win[i])
               ELSE IF present # {}
               THEN /\ Len(res) = Cardinality(present) + 1
                    /\ res[1] # C7_Sentinel
                    /\ \A k \in present :
                          \E i \in 2..Len(res) :
                              res[i] = C7_FieldLine(video_metadata[v], k)
               ELSE res = <<C7_Sentinel>>

\* C7, its case: no transcript in the window, metadata with a title and a
\* description but no author.
C7_Witness ==
    /\ yt_reply.op = "get_context_text"
    /\ yt_reply.video_id = "v1"
    /\ yt_reply.result = <<"Video information (no transcript available):",
                           "Video Title: Winter Olympics Event",
                           "Description: Live from Sochi">>

(***************************************************************************)
(* ElevenLabsService: the audio cache, and the /audio endpoint of main.py  *)
(***************************************************************************)

\* The ids uuid.uuid4() hands out: each call gives one never given before.
Uuid(n) == "audio-" \o ToString(n)
AudioIds == {Uuid(n) : n \in 1..MaxAudio} \cup {"unknown"}

\* response.content of the synthesis collaborator.
AudioContents == {"", "ID3-a", "ID3-b"}

\* What the POST to the collaborator does: status 200, another status, or
\* an exception of the client.
SynthesisOutcomes == {"200", "401", "exception"}

\* text_to_speech: the cache after the call and the value it returns.
TextToSpeechCache(outcome, content) ==
    IF outcome = "200"
    THEN DictSet(audio_cache, Uuid(uuid_next + 1), content)
    ELSE audio_cache
TextToSpeechResult(outcome) ==
    IF outcome = "200" THEN Some(Uuid(uuid_next + 1)) ELSE None

\* The part of text_to_speech every caller shares.
TextToSpeech(outcome, content) ==
    /\ outcome = "200" => uuid_next < MaxAudio
    /\ audio_cache' = TextToSpeechCache(outcome, content)
    /\ uuid_next' = IF outcome = "200" THEN uuid_next + 1 ELSE uuid_next
    /\ audio_log' = IF outcome = "200"
                     THEN [audio_log EXCEPT !.put = DictSet(@, Uuid(uuid_next + 1), content)]
                     ELSE audio_log

text_to_speech(outcome, content) ==
    /\ TextToSpeech(outcome, content)
    /\ audio_reply' = [op |-> "text_to_speech", audio_id |-> TextToSpeechResult(outcome).v,
                       found |-> TextToSpeechResult(outcome).some, content |-> ""]
    /\ UNCHANGED notAudio

\* ElevenLabsService.get_audio: self._audio_cache.get(audio_id)
service_get_audio(audio_id) ==
    IF audio_id \in DOMAIN audio_cache THEN Some(audio_cache[audio_id]) ELSE None

\* `not audio_data`: None and the empty bytes are both falsy.
Falsy(optional) == ~optional.some \/ optional.v = ""

\* main.py get_audio: the endpoint answers 404 or the bytes.
get_audio(audio_id) ==
    LET audio_data == service_get_audio(audio_id)
    IN  /\ audio_reply' = IF Falsy(audio_data)
                           THEN [op |-> "get_audio", audio_id |-> audio_id,
                                 found |-> FALSE, content |-> ""]
                           ELSE [op |-> "get_audio", audio_id |-> audio_id,
                                 found |-> TRUE, content |-> audio_data.v]
        /\ UNCHANGED <<audio_cache, uuid_next, audio_log>>
        /\ UNCHANGED notAudio

\* ElevenLabsService.clear_audio
clear_audio(audio_id) ==
    /\ audio_cache' = IF audio_id \in DOMAIN audio_cache
                       THEN [k \in DOMAIN audio_cache \ {audio_id} |-> audio_cache[k]]
                       ELSE audio_cache
    /\ audio_log' = [audio_log EXCEPT !.removed = @ \cup ({audio_id} \cap DOMAIN audio_log.put)]
    /\ audio_reply' = [op |-> "clear_audio", audio_id |-> audio_id,
                       found |-> audio_id \in DOMAIN audio_cache, content |-> ""]
    /\ UNCHANGED uuid_next
    /\ UNCHANGED notAudio

InitAudio ==
    /\ audio_cache = [k \in {} |-> ""]
    /\ uuid_next = 0
    /\ audio_reply = [op |-> "none", audio_id |-> "", found |-> FALSE, content |-> ""]
    /\ audio_log = [put |-> [k \in {} |-> ""], removed |-> {}]

NextAudio ==
    \/ \E outcome \in SynthesisOutcomes, content \in AudioContents :
            text_to_speech(outcome, content)
    \/ \E audio_id \in AudioIds : get_audio(audio_id)
    \/ \E audio_id \in AudioIds : clear_audio(audio_id)

\* The ids that were put and not removed since.
Stored == DOMAIN audio_log.put \ audio_log.removed

\* C13: get of an id that was put and not removed returns the bytes that
\* were put, on every call; get of any other id returns absent.
C13_GetReturnsWhatWasPut ==
    audio_reply.op = "get_audio" =>
        IF audio_reply.audio_id \in Stored
        THEN audio_reply.found /\ audio_reply.content = audio_log.put[audio_reply.audio_id]
        ELSE ~audio_reply.found

\* The cache itself keeps what was put until it is removed.
CacheKeepsWhatWasPut ==
    /\ DOMAIN audio_cache = Stored
    /\ \A k \in Stored : audio_cache[k] = audio_log.put[k]

(***************************************************************************)
(* AgentService.answer_question and its tools                              *)
(***************************************************************************)

Requests == 1..MaxRequests

\* models.py, CommentaryItemPush.type: the Literal of accepted card types.
CardTypes == {"market_shift", "historical", "analysis", "narration", "player_profile"}

\* Arguments the reasoning engine passes to push_info_card.  card_type is a
\* plain `str` parameter of the tool, so the engine may pass any string.
EngineTitles == {"X"}
EngineCardTypes == {"analysis", "stats"}

\* card_key = f"{title}:{card_type}"
CardKey(title, card_type) == title \o ":" \o card_type

CardKeys == {CardKey(t, c) : t \in EngineTitles, c \in EngineCardTypes}

\* One tool call requested by the reasoning engine.
SearchCall == [tool |-> "search_exa", title |-> "", card_type |-> ""]
PushCall(title, card_type) ==
    [tool |-> "push_info_card", title |-> title, card_type |-> card_type]
ToolCalls == {SearchCall} \cup {PushCall(t, c) : t \in EngineTitles, c \in EngineCardTypes}

\* The tool calls of one step of the tool-calling agent: the engine's
\* message may carry several tool calls, AgentExecutor runs them all.
StepOutputs == UNION {[1..k -> ToolCalls] : k \in 1..MaxActionsPerStep}

\* Final answers of the reasoning engine.  The last one uses one of the
\* phrases the system prompt forbids ("I'll pull up").
PlainAnswer == "Dukurs leads after the first run."
StallingAnswer == "I'll pull up the stats for you."
AnswerTexts == {"", PlainAnswer, StallingAnswer}
IsStalling(text) == text = StallingAnswer

\* The observations of push_info_card.
DuplicateObservation(title) == "Card '" \o title \o "' was already pushed. Skipped duplicate."
PushedObservation(title) == "Card pushed: " \o title
FailedObservation == "Card push failed. Continuing with answer..."

\* The fixed answers of answer_question.
NoVideoAnswer == "I need a video to be loaded first. Please load a video and try again."
FallbackAnswer == "I'm having trouble answering right now. Please try again in a moment."

NoResult == [answer |-> "none", sources |-> <<>>, tools_used |-> {}, exa_results |-> <<>>,
             returned |-> FALSE]
Result(answer, sources, tools_used, exa_results) ==
    [answer |-> answer, sources |-> sources, tools_used |-> tools_used,
     exa_results |-> exa_results, returned |-> TRUE]

NoRequest == [video_id |-> "", athlete |-> FALSE]

NoAgentLog == [alone |-> TRUE,
               fetch_failed |-> FALSE,
               pushes |-> [k \in CardKeys |-> 0],
               broadcasts |-> [k \in CardKeys |-> 0]]

\* The counters of the log only tell 0, 1 and "more".
Bump(n) == IF n < 2 THEN n + 1 ELSE 2

InFlightRequests == {r \in Requests : apc[r] \notin {"idle", "returned"}}

\* Request r starts or is resumed: requests in flight together are not alone.
Overlap(r, log) ==
    [q \in Requests |->
        IF InFlightRequests \ {r} = {} THEN log[q]
        ELSE IF q = r \/ q \in InFlightRequests THEN [log[q] EXCEPT !.alone = FALSE]
        ELSE log[q]]

\* get_latest_exa_results()
get_latest_exa_results(cache) == DictGet(cache, "latest", <<>>)

\* The loop of lines 948-954: the source urls of the cached findings.
Sources(exa_results) == [i \in 1..Len(exa_results) |-> exa_results[i].source_url]

\* AgentExecutor is built without return_intermediate_steps, so its result
\* has no "intermediate_steps" key and lines 923-936 are skipped.
ReturnIntermediateSteps == FALSE

\* The return statement of lines 956-961, reached with the engine's output.
Finish(r, output) ==
    LET exa_results == get_latest_exa_results(exa_result_cache)
    IN  /\ result' = [result EXCEPT ![r] =
                Result(output, Sources(exa_results),
                       IF ReturnIntermediateSteps THEN called[r] ELSE {},
                       exa_results)]
        /\ apc' = [apc EXCEPT ![r] = "returned"]

\* The except branch of lines 963-975.
Fallback(r) ==
    /\ result' = [result EXCEPT ![r] = Result(FallbackAnswer, <<>>, {}, <<>>)]
    /\ apc' = [apc EXCEPT ![r] = "returned"]

\* `if not video_id`
NotVideoIdNever(video_id) == FALSE
NotVideoId(video_id) == video_id = ""

\* The answer of the except branch around the metadata fetch (line 698).
MetadataErrorAnswer ==
    "I'm having trouble accessing the video information. Please try reloading the video."

\* The title get_video_metadata stores when its requests fail.
DefaultTitle == "Winter Olympics Event"

\* answer_question is called: lines 649-702 up to its first await.  The
\* caches are cleared before the arguments are looked at.
answer_start(r, video_id, athlete) ==
    /\ apc[r] = "idle"
    /\ exa_result_cache' = [k \in {} |-> <<>>]
    /\ pushed_cards_tracker' = {}
    /\ areq' = [areq EXCEPT ![r] = [video_id |-> video_id, athlete |-> athlete]]
    /\ alog' = Overlap(r, alog)
    /\ IF NotVideoId(video_id)
       THEN /\ result' = [result EXCEPT ![r] = Result(NoVideoAnswer, <<>>, {}, <<>>)]
            /\ apc' = [apc EXCEPT ![r] = "returned"]
       ELSE /\ result' = result
            /\ apc' = [apc EXCEPT ![r] =
                    IF video_id \in DOMAIN video_metadata
                    THEN "status_broadcast" ELSE "fetch_metadata"]
    /\ UNCHANGED <<iterations, intermediate_steps, called, pending, video_metadata>>
    /\ UNCHANGED notAgent

\* `await YouTubeService.get_video_metadata(video_id)` returns.  When its
\* requests to the platform fail (`failed`) it catches the error and stores
\* and returns its defaults, so it never raises; the coroutine goes on to
\* the await of the PROCESSING_START broadcast.
metadata_fetched(r, failed, title) ==
    /\ apc[r] = "fetch_metadata"
    /\ video_metadata' = DictSet(video_metadata, areq[r].video_id,
            [video_id |-> areq[r].video_id,
             title |-> IF failed THEN DefaultTitle ELSE title,
             author |-> "Unknown", description |-> "", thumbnail |-> ""])
    /\ apc' = [apc EXCEPT ![r] = "status_broadcast"]
    /\ alog' = [alog EXCEPT ![r].fetch_failed = failed]
    /\ UNCHANGED <<pushed_cards_tracker, exa_result_cache, areq, iterations,
                   intermediate_steps, called, pending, result>>
    /\ UNCHANGED notAgent

\* `await manager.broadcast(PROCESSING_START)` returns or raises; then
\* agent_executor.ainvoke starts and awaits the engine's first message.
status_broadcast_done(r, raised) ==
    /\ apc[r] = "status_broadcast"
    /\ IF raised
       THEN Fallback(r)
       ELSE /\ apc' = [apc EXCEPT ![r] = "engine"]
            /\ result' = result
    /\ UNCHANGED <<pushed_cards_tracker, exa_result_cache, areq, iterations,
                   intermediate_steps, called, pending, alog, video_metadata>>
    /\ UNCHANGED notAgent

\* The engine's message has no tool call: the loop ends with its text.
engine_finish(r, text) ==
    /\ apc[r] = "engine"
    /\ iterations[r] < MaxIterations
    /\ Finish(r, text)
    /\ UNCHANGED <<pushed_cards_tracker, exa_result_cache, areq, iterations,
                   intermediate_steps, called, pending, alog, video_metadata>>
    /\ UNCHANGED notAgent

\* The call of the engine raises.
engine_fail(r) ==
    /\ apc[r] = "engine"
    /\ iterations[r] < MaxIterations
    /\ Fallback(r)
    /\ UNCHANGED <<pushed_cards_tracker, exa_result_cache, areq, iterations,
                   intermediate_steps, called, pending, alog, video_metadata>>
    /\ UNCHANGED notAgent

\* The engine's message carries tool calls: AgentExecutor starts them all.
\* `room` is how many tool calls the engine still asks for.
engine_act(r, calls, room) ==
    /\ apc[r] = "engine"
    /\ iterations[r] < MaxIterations
    /\ Len(calls) <= room
    /\ pending' = [pending EXCEPT ![r] =
            [i \in 1..Len(calls) |->
                [tool |-> calls[i].tool, title |-> calls[i].title,
                 card_type |-> calls[i].card_type,
                 st |-> "todo", obs |-> "", nth |-> 0, bcast |-> 0]]]
    /\ apc' = [apc EXCEPT ![r] = "tools"]
    /\ UNCHANGED <<pushed_cards_tracker, exa_result_cache, areq, iterations,
                   intermediate_steps, called, result, alog, video_metadata>>
    /\ UNCHANGED notAgent

\* The while condition fails: with early_stopping_method="generate" the
\* executor asks the agent for a stopped response.  An agent that supports
\* it generates a text; the tool-calling agent raises ValueError.
loop_exhausted(r, generated, text) ==
    /\ apc[r] = "engine"
    /\ iterations[r] = MaxIterations
    /\ IF generated THEN Finish(r, text) ELSE Fallback(r)
    /\ UNCHANGED <<pushed_cards_tracker, exa_result_cache, areq, iterations,
                   intermediate_steps, called, pending, alog, video_metadata>>
    /\ UNCHANGED notAgent

\* A tool call of the step ended with pending list p: when it was the last
\* one, the records join intermediate_steps and the loop calls the engine.
AfterTool(r, p) ==
    /\ pending' = [pending EXCEPT ![r] = p]
    /\ IF \A i \in 1..Len(p) : p[i].st = "done"
       THEN /\ iterations' = [iterations EXCEPT ![r] = @ + 1]
            /\ intermediate_steps' = [intermediate_steps EXCEPT ![r] = @ + Len(p)]
            /\ called' = [called EXCEPT ![r] = @ \cup {p[i].tool : i \in 1..Len(p)}]
            /\ apc' = [apc EXCEPT ![r] = "engine"]
       ELSE UNCHANGED <<iterations, intermediate_steps, called, apc>>

\* search_exa ran (in the executor's thread): it failed, or it stored the
\* insights that survived its filter, none or some.
search_exa(r, i, outcome) ==
    /\ apc[r] = "tools"
    /\ i \in 1..Len(pending[r])
    /\ pending[r][i].tool = "search_exa"
    /\ pending[r][i].st = "todo"
    /\ exa_result_cache' =
            IF outcome = "unavailable" THEN exa_result_cache
            ELSE DictSet(exa_result_cache, "latest",
                    IF outcome = "none" THEN <<>>
                    ELSE <<[source_url |-> "https://example.org/" \o ToString(r)]>>)
    /\ AfterTool(r, [pending[r] EXCEPT ![i].st = "done", ![i].obs = outcome])
    /\ UNCHANGED <<pushed_cards_tracker, areq, result, alog, video_metadata>>
    /\ UNCHANGED notAgent

\* push_info_card, lines 284-316: from the call to the await of the
\* broadcast (or to a return before it).
push_info_card(r, i) ==
    /\ apc[r] = "tools"
    /\ i \in 1..Len(pending[r])
    /\ pending[r][i].tool = "push_info_card"
    /\ pending[r][i].st = "todo"
    /\ \A j \in 1..(i - 1) :
            pending[r][j].tool = "push_info_card" => pending[r][j].st # "todo"
    /\ LET title == pending[r][i].title
           card_type == pending[r][i].card_type
           card_key == CardKey(title, card_type)
           nth == alog[r].pushes[card_key]
           log == [alog[r] EXCEPT !.pushes[card_key] = Bump(@)]
       IN  IF card_key \in pushed_cards_tracker
           THEN /\ pushed_cards_tracker' = pushed_cards_tracker
                /\ alog' = [alog EXCEPT ![r] = log]
                /\ AfterTool(r, [pending[r] EXCEPT ![i].st = "done", ![i].nth = nth,
                                    ![i].obs = DuplicateObservation(title)])
           ELSE /\ pushed_cards_tracker' = pushed_cards_tracker \cup {card_key}
                /\ IF card_type \in CardTypes
                   THEN /\ alog' = [alog EXCEPT ![r] =
                                [log EXCEPT !.broadcasts[card_key] = Bump(@)]]
                        /\ AfterTool(r, [pending[r] EXCEPT ![i].st = "awaiting",
                                            ![i].nth = nth, ![i].bcast = 1])
                   ELSE /\ alog' = [alog EXCEPT ![r] = log]
                        /\ AfterTool(r, [pending[r] EXCEPT ![i].st = "done", ![i].nth = nth,
                                            ![i].obs = FailedObservation])
    /\ UNCHANGED <<exa_result_cache, areq, result, video_metadata>>
    /\ UNCHANGED notAgent

\* push_info_card, lines 316-328: the broadcast returned or raised.
push_info_card_done(r, i, raised) ==
    /\ apc[r] = "tools"
    /\ i \in 1..Len(pending[r])
    /\ pending[r][i].st = "awaiting"
    /\ AfterTool(r, [pending[r] EXCEPT ![i].st = "done",
                        ![i].obs = IF raised THEN FailedObservation
                                   ELSE PushedObservation(pending[r][i].title)])
    /\ UNCHANGED <<pushed_cards_tracker, exa_result_cache, areq, result, alog,
                   video_metadata>>
    /\ UNCHANGED notAgent

InitAgent ==
    /\ pushed_cards_tracker = {}
    /\ exa_result_cache = [k \in {} |-> <<>>]
    /\ apc = [r \in Requests |-> "idle"]
    /\ areq = [r \in Requests |-> NoRequest]
    /\ iterations = [r \in Requests |-> 0]
    /\ intermediate_steps = [r \in Requests |-> 0]
    /\ called = [r \in Requests |-> {}]
    /\ pending = [r \in Requests |-> <<>>]
    /\ result = [r \in Requests |-> NoResult]
    /\ alog = [r \in Requests |-> NoAgentLog]

\* Concurrent requests whose engines ask for at most MaxToolCalls tools.
NextCards ==
    \/ \E r \in Requests, v \in {"", "v1"} : answer_start(r, v, FALSE)
    \/ \E r \in Requests, failed \in BOOLEAN : metadata_fetched(r, failed, "Bobsleigh Final")
    \/ \E r \in Requests, raised \in BOOLEAN : status_broadcast_done(r, raised)
    \/ \E r \in Requests : engine_finish(r, PlainAnswer)
    \/ \E r \in Requests, calls \in StepOutputs :
            engine_act(r, calls, MaxToolCalls - intermediate_steps[r])
    \/ \E r \in Requests, i \in 1..MaxActionsPerStep :
            \E outcome \in {"unavailable", "none", "found"} : search_exa(r, i, outcome)
    \/ \E r \in Requests, i \in 1..MaxActionsPerStep : push_info_card(r, i)
    \/ \E r \in Requests, i \in 1..MaxActionsPerStep, raised \in BOOLEAN :
            push_info_card_done(r, i, raised)

\* One request, any behaviour of the engine up to the bound of the loop.
NextAnswer ==
    \/ \E v \in {"", "v1"}, athlete \in BOOLEAN : answer_start(1, v, athlete)
    \/ \E failed \in BOOLEAN, t \in Titles : metadata_fetched(1, failed, t)
    \/ \E raised \in BOOLEAN : status_broadcast_done(1, raised)
    \/ \E text \in AnswerTexts : engine_finish(1, text)
    \/ engine_fail(1)
    \/ \E calls \in StepOutputs : engine_act(1, calls, MaxActionsPerStep)
    \/ \E generated \in BOOLEAN, text \in AnswerTexts : loop_exhausted(1, generated, text)
    \/ \E i \in 1..MaxActionsPerStep :
            \E outcome \in {"unavailable", "none", "found"} : search_exa(1, i, outcome)
    \/ \E i \in 1..MaxActionsPerStep : push_info_card(1, i)
    \/ \E i \in 1..MaxActionsPerStep, raised \in BOOLEAN : push_info_card_done(1, i, raised)

(***************************************************************************)
(* Properties of AgentService                                              *)
(***************************************************************************)

\* The push_info_card calls of request r's current step that have run.
PushesRun(r) ==
    {i \in 1..Len(pending[r]) :
        pending[r][i].tool = "push_info_card" /\ pending[r][i].st # "todo"}

\* C3: in a request running alone, the first push_info_card call with a key
\* performs exactly one broadcast, and every later call with that key
\* performs none and returns the duplicate observation.
C3_DedupWithinRequest ==
    \A r \in Requests :
        alog[r].alone =>
            \A i \in PushesRun(r) :
                IF pending[r][i].nth = 0
                THEN pending[r][i].bcast = 1
                ELSE /\ pending[r][i].bcast = 0
                     /\ pending[r][i].obs = DuplicateObservation(pending[r][i].title)

\* C4: under concurrent requests no request broadcasts a card with the same
\* key more than once.
C4_NoKeyBroadcastTwice ==
    \A r \in Requests : \A k \in CardKeys : alog[r].broadcasts[k] <= 1

\* C5: push_info_card returns the duplicate observation to a request only if
\* that request itself pushed the key earlier.
C5_DuplicateOnlyOwnKey ==
    \A r \in Requests :
        \A i \in PushesRun(r) :
            pending[r][i].obs = DuplicateObservation(pending[r][i].title)
                => pending[r][i].nth > 0

\* The search_exa calls of request r's current step that have run.
SearchesRun(r) ==
    {i \in 1..Len(pending[r]) : pending[r][i].tool = "search_exa" /\ pending[r][i].st = "done"}

\* The finding a search of request r caches.
OwnFinding(r) == [source_url |-> "https://example.org/" \o ToString(r)]

\* C24: under concurrent requests, what a request returns as findings and
\* sources was cached by its own searches, and while it is in flight the
\* finding its searches of the current step cached is still in the cache.
C24_FindingsStayWithTheirRequest ==
    \A r \in Requests :
        /\ result[r].returned =>
                /\ \A i \in 1..Len(result[r].exa_results) :
                        result[r].exa_results[i] = OwnFinding(r)
                /\ \A i \in 1..Len(result[r].sources) :
                        result[r].sources[i] = OwnFinding(r).source_url
        /\ (/\ apc[r] \in {"tools", "engine"}
            /\ SearchesRun(r) # {}
            /\ \A i \in SearchesRun(r) : pending[r][i].obs = "found")
                => get_latest_exa_results(exa_result_cache) = <<OwnFinding(r)>>

\* C8: whatever the engine does, the result answer_question returns has a
\* non-empty answer text.
C8_AnswerNeverEmpty ==
    \A r \in Requests : result[r].returned => result[r].answer # ""

\* C9: the loop performs at most 10 iterations and a request never has more
\* than 10 tool invocation records.
C9_AtMostTenRecords ==
    \A r \in Requests :
        /\ iterations[r] <= MaxIterations
        /\ intermediate_steps[r] <= MaxIterations

\* C10: a stalling answer to an athlete question of a request that made no
\* search is never returned.
C10_StallingNeverReturned ==
    \A r \in Requests :
        (result[r].returned /\ areq[r].athlete /\ "search_exa" \notin called[r])
            => ~IsStalling(result[r].answer)

\* C11: a request with an empty video_id goes straight from the call to its
\* return: it is never suspended at the metadata fetch, a broadcast, the
\* engine or a tool, and it returns the clarifying answer with empty
\* sources, tools_used and search findings.
C11_EmptyVideoIdRejected ==
    \A r \in Requests :
        (apc[r] # "idle" /\ areq[r].video_id = "") =>
            /\ apc[r] = "returned"
            /\ result[r] = Result(NoVideoAnswer, <<>>, {}, <<>>)
            /\ result[r].answer # ""
            /\ iterations[r] = 0
            /\ intermediate_steps[r] = 0
            /\ pending[r] = <<>>
            /\ called[r] = {}
            /\ ~alog[r].fetch_failed
            /\ \A k \in CardKeys : alog[r].pushes[k] = 0 /\ alog[r].broadcasts[k] = 0

\* C11 happens: a request with an empty video_id has returned.
C11_Witness ==
    \E r \in Requests : apc[r] = "returned" /\ areq[r].video_id = ""

\* C12: when the metadata fetch of a request failed, the request has ended
\* with the terminal error answer and never entered the loop.
C12_FetchFailureIsTerminal ==
    \A r \in Requests :
        alog[r].fetch_failed =>
            /\ apc[r] = "returned"
            /\ result[r].answer = MetadataErrorAnswer
            /\ iterations[r] = 0
            /\ intermediate_steps[r] = 0

(***************************************************************************)
(* services/agent_service.py: AgentService.proactive_video_research        *)
(***************************************************************************)

ProTitles == {"UFC 300 Highlights", "Winter Olympics Final", "Chess Open", ""}

UPPER == "ABCDEFGHIJKLMNOPQRSTUVWXYZ"
LOWER == "abcdefghijklmnopqrstuvwxyz"

\* str.lower() of one character (ASCII).
LowerChar(c) ==
    IF \E i \in 1..Len(UPPER) : SubSeq(UPPER, i, i) = c
    THEN LET i == CHOOSE i \in 1..Len(UPPER) : SubSeq(UPPER, i, i) = c
         IN  SubSeq(LOWER, i, i)
    ELSE c

\* str.lower()
RECURSIVE lower(_)
lower(str) ==
    IF Len(str) = 0 THEN ""
    ELSE LowerChar(SubSeq(str, 1, 1)) \o lower(SubSeq(str, 2, Len(str)))

\* video_title.lower() of the titles used, computed once.
title_lower == [video_title \in ProTitles |-> lower(video_title)]

\* `keyword in text` for strings
In(keyword, text) ==
    \E i \in 1..(Len(text) - Len(keyword) + 1) :
        SubSeq(text, i, i + Len(keyword) - 1) = keyword

\* sport_keywords, in the order of the dict literal
sport_keywords == <<
    [keyword |-> "ufc", context |-> "UFC MMA"],
    [keyword |-> "mma", context |-> "MMA"],
    [keyword |-> "boxing", context |-> "boxing"],
    [keyword |-> "olympics", context |-> "Olympics"],
    [keyword |-> "winter olympics", context |-> "Winter Olympics"],
    [keyword |-> "figure skating", context |-> "figure skating"],
    [keyword |-> "snowboarding", context |-> "snowboarding"],
    [keyword |-> "skiing", context |-> "skiing"],
    [keyword |-> "ice hockey", context |-> "ice hockey"] >>

\* The loop of lines 1010-1014: the context of the first keyword found.
SportContext(text) ==
    LET found == {i \in 1..Len(sport_keywords) : In(sport_keywords[i].keyword, text)}
    IN  IF found = {} THEN None
        ELSE Some(sport_keywords[CHOOSE i \in found : \A j \in found : i <= j].context)

\* sport_context after the loop, for the titles used, computed once.
sport_context == [video_title \in ProTitles |-> SportContext(title_lower[video_title])]

SearchQuery(video_title) == video_title \o " professional athletes profiles stats"

\* What search_exa does to _exa_result_cache: nothing when it fails before
\* _store_exa_results_for_cards, else "latest" becomes the insights kept.
SearchOutcomes == {"unavailable", "none", "some"}
StoreExaResults(cache, outcome) ==
    IF outcome = "unavailable" THEN cache
    ELSE DictSet(cache, "latest",
            IF outcome = "none" THEN <<>>
            ELSE <<[source_url |-> "https://example.org/profile"]>>)

\* _store_video_context
store_video_context_only(cache, video_id, context) == [v \in {video_id} |-> context]
store_video_context(cache, video_id, context) == DictSet(cache, video_id, context)

NoProLog == [called |-> FALSE, video_title |-> "", video_id |-> "", searches |-> <<>>,
             stored |-> FALSE, raised |-> FALSE]

\* proactive_video_research(video_title, video_id): it has no await
\* (search_exa.invoke is the synchronous call), so it runs in one piece.
\* `failed` is an exception raised by search_exa.invoke, which the
\* `except Exception` of lines 1041-1042 swallows.
proactive_video_research(video_title, video_id, outcome, failed) ==
    LET detected == sport_context[video_title]
        search_query == SearchQuery(video_title)
        searched == detected.some
        cache == IF searched /\ ~failed THEN StoreExaResults(exa_result_cache, outcome)
                 ELSE exa_result_cache
        exa_results == get_latest_exa_results(cache)
    IN  /\ exa_result_cache' = cache
        /\ video_context_cache' =
                IF searched /\ ~failed
                THEN store_video_context(video_context_cache, video_id,
                        [sport |-> detected.v,
                         profiles_cached |-> Len(exa_results),
                         search_query |-> search_query])
                ELSE video_context_cache
        /\ plog' = [called |-> TRUE, video_title |-> video_title, video_id |-> video_id,
                    searches |-> IF searched
                                 THEN <<[query |-> search_query, category |-> "people"]>>
                                 ELSE <<>>,
                    stored |-> searched /\ ~failed,
                    raised |-> FALSE]
        /\ UNCHANGED <<pushed_cards_tracker, apc, areq, iterations, intermediate_steps,
                       called, pending, result, alog>>
        /\ UNCHANGED notPro

InitProactive ==
    /\ video_context_cache = [v \in {} |-> NoProLog]
    /\ plog = NoProLog

\* Calls of proactive_video_research while clients connect and disconnect.
NextProactive ==
    \/ \E t \in ProTitles, v \in VideoIds, o \in SearchOutcomes, f \in BOOLEAN :
            proactive_video_research(t, v, o, f)
    \/ \E h \in Handles : connect(h)
    \/ \E h \in Handles : disconnect(h)

\* The title contains one of the sport keywords.
HasSportKeyword(video_title) ==
    \E k \in {"ufc", "mma", "boxing", "olympics", "winter olympics", "figure skating",
               "snowboarding", "skiing", "ice hockey"} : In(k, title_lower[video_title])

\* The summary the call writes: sport, number of profiles, query.
IsSummaryOf(context, video_title) ==
    /\ DOMAIN context = {"sport", "profiles_cached", "search_query"}
    /\ \E i \in 1..Len(sport_keywords) : context.sport = sport_keywords[i].context
    /\ context.profiles_cached \in Nat
    /\ context.search_query = SearchQuery(video_title)

\* C19: proactive_video_research never broadcasts and never raises; for a
\* title without a sport keyword it searches nothing and writes nothing;
\* else it issues exactly one search, of category "people", and writes at
\* most the summary of this video, leaving the entries of the other videos
\* as they were.
C19_ProactiveResearchIsSilent ==
    /\ [](\A h \in Handles : received[h] = {})
    /\ [](~plog.raised)
    /\ [](plog.called =>
            IF HasSportKeyword(plog.video_title)
            THEN /\ Len(plog.searches) = 1
                 /\ plog.searches[1].category = "people"
                 /\ plog.stored =>
                        /\ plog.video_id \in DOMAIN video_context_cache
                        /\ IsSummaryOf(video_context_cache[plog.video_id], plog.video_title)
            ELSE plog.searches = <<>> /\ ~plog.stored)
    /\ [][ /\ \A v \in DOMAIN video_context_cache :
                v \in DOMAIN video_context_cache'
                /\ (v # plog'.video_id => video_context_cache'[v] = video_context_cache[v])
           /\ DOMAIN video_context_cache' \subseteq DOMAIN video_context_cache \cup {plog'.video_id}
           /\ ~plog'.stored =>
                (video_context_cache' = video_context_cache /\ exa_result_cache' = exa_result_cache)
         ]_vars

\* C19 witness: a call for a title with a sport keyword stored the summary
\* of its video while a client is registered and another video has an entry.
C19_Witness ==
    /\ plog.called /\ plog.stored
    /\ HasSportKeyword(plog.video_title)
    /\ active_connections # {}
    /\ \E v \in DOMAIN video_context_cache : v # plog.video_id

(***************************************************************************)
(* services/agent_service.py: the tools handed to the reasoning engine     *)
(***************************************************************************)

\* The screenshot of a QuestionRequest: Optional[str].
Screenshots == {None, Some(""), Some("/9j/4AAQSkZJRg")}

NoToolContext == [set |-> FALSE, video_id |-> "", playback_time |-> 0, screenshot_base64 |-> None]
NoToolReply == [tool |-> "none", args |-> <<>>, failed |-> FALSE, raised |-> FALSE,
                observation |-> <<>>]
NoCard == [path |-> "none", id |-> None, timestamp |-> None, type |-> "", title |-> ""]

\* A tool returns its observation (a text, given as its lines), or raises.
ToolReturns(tool, failed, observation) ==
    [tool |-> tool, args |-> <<>>, failed |-> failed, raised |-> FALSE,
     observation |-> observation]
ToolRaises(tool, failed) ==
    [tool |-> tool, args |-> <<>>, failed |-> failed, raised |-> TRUE, observation |-> <<>>]

\* `except Exception as e: ... return "<text>"` of a tool
OnToolFailureRaise(tool, text) == ToolRaises(tool, TRUE)
OnToolFailure(tool, text) == ToolReturns(tool, TRUE, <<text>>)

NoTranscriptObservation ==
    "No transcript available for this stream. This is likely a live event without captions. You can still answer based on the video metadata and search for information about the event."
ScreenshotUnavailable == "Screenshot analysis unavailable. Use transcript and metadata instead."
NoScreenshotProvided == "No screenshot provided"

\* The tool if it were not bound to the playback time of the request.
get_current_transcript_unbound(video_id, playback_time) ==
    ToolReturns("get_current_transcript", FALSE, get_context_text(video_id, 0))

\* get_current_transcript, lines 459-481.  get_context_text reads two dicts
\* and cannot fail.
get_current_transcript(video_id, playback_time) ==
    LET context == get_context_text(video_id, playback_time)
    IN  IF context = <<>> \/ context = <<"">>
        THEN ToolReturns("get_current_transcript", FALSE, <<NoTranscriptObservation>>)
        ELSE ToolReturns("get_current_transcript", FALSE, context)

\* json.dumps({"title": ..., "author": ..., "description": ...}, indent=2), by lines
JsonDumps(title, author, description) ==
    << "{",
       "  \"title\": \"" \o title \o "\",",
       "  \"author\": \"" \o author \o "\",",
       "  \"description\": \"" \o description \o "\"",
       "}" >>

\* get_current_video_metadata, lines 483-519.  With no stored metadata the
\* fallback reads `video_title`, a name bound neither in _setup_context_tools
\* nor in the module: NameError, in the try block and again in the except
\* block, so it leaves the tool.
get_current_video_metadata(video_id) ==
    LET metadata == DictGet(video_metadata, video_id, [k \in {} |-> ""])
    IN  IF DOMAIN metadata = {}
        THEN ToolRaises("get_current_video_metadata", FALSE)
        ELSE ToolReturns("get_current_video_metadata", FALSE,
                JsonDumps(DictGet(metadata, "title", "Unknown"),
                          DictGet(metadata, "author", "Unknown"),
                          DictGet(metadata, "description", "No description available")))

\* The visual-analysis collaborator: it answers with a text, answers with no
\* text (response.text is None), or fails.
VisionOutcomes == {"text", "no_text", "exception"}
Vision(tool, outcome) ==
    CASE outcome = "text" -> ToolReturns(tool, FALSE, <<"A skier leaves the start gate.">>)
      [] outcome = "no_text" -> ToolReturns(tool, FALSE, <<>>)
      [] outcome = "exception" -> OnToolFailure(tool, ScreenshotUnavailable)

\* analyze_current_frame, lines 531-569
analyze_current_frame(outcome) == Vision("analyze_current_frame", outcome)

\* analyze_screenshot, lines 330-377.  Its argument is a plain `str` the
\* reasoning engine chooses.
EngineScreenshots == {"", "/9j/4AAQSkZJRg"}
analyze_screenshot(screenshot_base64, outcome) ==
    IF screenshot_base64 = ""
    THEN ToolReturns("analyze_screenshot", FALSE, <<NoScreenshotProvided>>)
    ELSE Vision("analyze_screenshot", outcome)

\* tools_list of _setup_context_tools, lines 521-574
SetupContextTools(screenshot_base64) ==
    {"search_exa", "push_info_card", "get_current_transcript", "get_current_video_metadata"}
        \cup (IF ~Falsy(screenshot_base64) THEN {"analyze_current_frame"}
                                           ELSE {"analyze_screenshot"})

\* answer_question, lines 685-717: the tools are made for a video whose
\* metadata is stored (it is fetched and stored when it is missing).
setup_context_tools(video_id, playback_time, screenshot_base64) ==
    /\ tool_reply = NoToolReply
    /\ video_id \in DOMAIN video_metadata
    /\ tctx' = [set |-> TRUE, video_id |-> video_id, playback_time |-> playback_time,
                screenshot_base64 |-> screenshot_base64]
    /\ tools_list' = SetupContextTools(screenshot_base64)
    /\ tool_reply' = NoToolReply
    /\ UNCHANGED last_card
    /\ UNCHANGED notTool

\* The reasoning engine invokes a tool of the request that only reads.
invoke_get_current_transcript ==
    /\ tool_reply = NoToolReply
    /\ "get_current_transcript" \in tools_list
    /\ tool_reply' = get_current_transcript(tctx.video_id, tctx.playback_time)
    /\ UNCHANGED <<tctx, tools_list, last_card>>
    /\ UNCHANGED notTool

invoke_get_current_video_metadata ==
    /\ tool_reply = NoToolReply
    /\ "get_current_video_metadata" \in tools_list
    /\ tool_reply' = get_current_video_metadata(tctx.video_id)
    /\ UNCHANGED <<tctx, tools_list, last_card>>
    /\ UNCHANGED notTool

invoke_analyze_current_frame(outcome) ==
    /\ tool_reply = NoToolReply
    /\ "analyze_current_frame" \in tools_list
    /\ tool_reply' = analyze_current_frame(outcome)
    /\ UNCHANGED <<tctx, tools_list, last_card>>
    /\ UNCHANGED notTool

invoke_analyze_screenshot(screenshot_base64, outcome) ==
    /\ tool_reply = NoToolReply
    /\ "analyze_screenshot" \in tools_list
    /\ tool_reply' = analyze_screenshot(screenshot_base64, outcome)
    /\ UNCHANGED <<tctx, tools_list, last_card>>
    /\ UNCHANGED notTool

\* ---- search_exa, lines 37-229 ----

\* What the search collaborator can return: title, url, highlights.
SearchResult(title, url, highlights) == [title |-> title, url |-> url, highlights |-> highlights]
ResultPool == {
    SearchResult("Mikaela Shiffrin - Alpine star", "https://olympics.com/athletes/shiffrin",
                 <<"Two-time Olympic gold medal winner.">>),
    SearchResult("Jane Doe", "https://www.linkedin.com/in/jane-doe",
                 <<"Bobsled pilot, national team since 2019.">>),
    SearchResult("Acme Consulting Group", "https://acme.example/about",
                 <<"Investment advice for private clients.">>),
    SearchResult("Hiring: national team physio", "https://jobs.example/physio",
                 <<>>) }

\* The result lists the collaborator returns, at most MaxResults long.
ResultLists == UNION {[1..k -> ResultPool] : k \in 0..MaxResults}
ShortResultLists == {l \in ResultLists : Len(l) < MaxResults}

\* category: Optional[str]
Categories == {None, Some("people"), Some("news")}

spam_indicators == <<
    "linkedin.com/in/", "linkedin.com/posts", "indeed.com", "glassdoor",
    "cryptocurrency", "crypto mining", "scam",
    "maintenance ltd", "property maintenance",
    "mcgregor projects", "repair and maintenance",
    "job posting", "hiring", "careers", "resume" >>

business_only_indicators == <<
    "consulting", "investment", "venture capital",
    "real estate", "insurance", "financial services" >>

sports_indicators == <<
    "ufc", "mma", "fighter", "boxing", "martial arts", "knockout",
    "athlete", "champion", "championship", "professional record",
    "olympics", "olympic", "world cup", "medal", "gold medal",
    "competition", "tournament", "sports", "team", "national team",
    "skeleton", "bobsled", "luge", "skiing", "snowboard", "ice hockey",
    "figure skating", "speed skating", "curling", "biathlon",
    "record holder", "world record", "personal best", "pb",
    "ranked", "ranking", "profile", "biography", "career stats" >>

\* " ".join(list)
RECURSIVE Join(_)
Join(list) ==
    IF list = <<>> THEN ""
    ELSE IF Len(list) = 1 THEN list[1]
    ELSE list[1] \o " " \o Join(Tail(list))

\* The texts of a result the filter looks at, lines 136-148.
ResultTexts(r) ==
    LET title == lower(r.title)
        url == lower(r.url)
        highlights_text == IF r.highlights # <<>> THEN lower(Join(r.highlights)) ELSE ""
    IN  [title_lower |-> title, url_lower |-> url,
         combined_text |-> title \o " " \o highlights_text \o " " \o url]

\* The LinkedIn exception of lines 162-169.
LinkedInAccepted(category, has_sports_content) ==
    category = Some("people") /\ has_sports_content

\* Lines 150-158, 161, 173-183 and 186-191: the tests of the loop.
has_sports_content(r) ==
    \E i \in 1..Len(sports_indicators) : In(sports_indicators[i], ResultTexts(r).combined_text)

is_linkedin(r) ==
    \/ In("linkedin.com/in/", ResultTexts(r).url_lower)
    \/ In("linkedin.com/posts", ResultTexts(r).url_lower)

is_spam(r) ==
    \E i \in 1..Len(spam_indicators) :
        /\ spam_indicators[i] \notin {"linkedin.com/in/", "linkedin.com/posts"}
        /\ \/ In(spam_indicators[i], ResultTexts(r).title_lower)
           \/ In(spam_indicators[i], ResultTexts(r).url_lower)

is_business_only(r) ==
    \E i \in 1..Len(business_only_indicators) :
        In(business_only_indicators[i], ResultTexts(r).title_lower)

\* The body of the loop of lines 135-200 for one result: TRUE when the
\* result becomes an insight.
Keeps(r, category) ==
    /\ category = Some("people") => has_sports_content(r)
    /\ is_linkedin(r) => LinkedInAccepted(category, has_sports_content(r))
    /\ ~is_spam(r)
    /\ ~is_business_only(r)

\* Keeps for the results and categories used, computed once.
keeps == [category \in Categories |-> [r \in ResultPool |-> Keeps(r, category)]]

Insight(r) == [source_title |-> r.title, source_url |-> r.url, key_points |-> r.highlights]

\* insights = insights[:3]
Take(list, n) == SubSeq(list, 1, IF Len(list) < n THEN Len(list) ELSE n)

Insights(results, category) ==
    LET kept == SelectSeq(results, LAMBDA r : keeps[category][r])
    IN  Take([i \in 1..Len(kept) |-> Insight(kept[i])], 3)

\* The summary of lines 211-224, by lines.
RECURSIVE SummaryLines(_, _)
SummaryLines(insights, i) ==
    IF i > Len(insights) THEN <<>>
    ELSE << ToString(i) \o ". " \o insights[i].source_title >>
         \o (IF insights[i].key_points # <<>>
             THEN << "   Key info: " \o insights[i].key_points[1] >> ELSE <<>>)
         \o << "   Source: " \o insights[i].source_url >>
         \o SummaryLines(insights, i + 1)

NoResultsObservation ==
    "No relevant results found. Try refining the search query or checking the spelling."
SearchUnavailable ==
    "Search service temporarily unavailable. Try using video metadata and transcript to answer the question."

Summary(insights) ==
    IF insights = <<>> THEN <<NoResultsObservation>>
    ELSE << "Found " \o ToString(Len(insights)) \o " relevant sources:" >>
         \o SummaryLines(insights, 1)
         \o << "IMPORTANT: Analyze these results and use push_info_card() to share the most valuable insights with the user. Do not dump raw results." >>

\* json.dumps({"error": "Exa search is not configured"})
NotConfigured == "{\"error\": \"Exa search is not configured\"}"

\* EXA_API_KEY is not set, or the collaborator fails, or it returns `results`.
SearchToolOutcomes == {"not_configured", "error", "results"}

\* The reasoning engine invokes search_exa(query, category).
invoke_search_exa(category, results, outcome) ==
    /\ tool_reply = NoToolReply
    /\ "search_exa" \in tools_list
    /\ IF outcome = "not_configured"
       THEN /\ tool_reply' = [ToolReturns("search_exa", FALSE, <<NotConfigured>>)
                                EXCEPT !.args = <<category>>]
            /\ UNCHANGED exa_result_cache
       ELSE IF outcome = "error"
       THEN /\ tool_reply' = [OnToolFailure("search_exa", SearchUnavailable)
                                EXCEPT !.args = <<category>>]
            /\ UNCHANGED exa_result_cache
       ELSE LET insights == Insights(results, category)
            IN  /\ exa_result_cache' = DictSet(exa_result_cache, "latest", insights)
                /\ tool_reply' = [ToolReturns("search_exa", FALSE, Summary(insights))
                                    EXCEPT !.args = <<category>>]
    /\ UNCHANGED <<tctx, tools_list, last_card>>
    /\ UNCHANGED <<pushed_cards_tracker, apc, areq, iterations, intermediate_steps,
                   called, pending, result, alog>>
    /\ UNCHANGED <<regVars, ytVars, audioVars, askVars, monVars, proVars, sendVars, loadVars, wsVars>>

\* ---- push_info_card, lines 241-328, seen from the reasoning engine ----

CardPushed(title) == "Card pushed: " \o title
CardSkipped(title) == "Card '" \o title \o "' was already pushed. Skipped duplicate."
CardPushFailed == "Card push failed. Continuing with answer..."

\* CommentaryItemPush(type=card_type, title=title, content=content, highlight=...)
\* model_dump(): id and timestamp keep their default, None.
ToolCard(title, card_type) ==
    [path |-> "push_info_card", id |-> None, timestamp |-> None,
     type |-> card_type, title |-> title]

\* The whole tool call.  CommentaryItemPush refuses a type outside its
\* Literal (pydantic ValidationError); broadcast returns or raises.
invoke_push_info_card(title, card_type, broadcast_raises) ==
    /\ tool_reply = NoToolReply
    /\ "push_info_card" \in tools_list
    /\ LET card_key == CardKey(title, card_type)
       IN  IF card_key \in pushed_cards_tracker
           THEN /\ tool_reply' = ToolReturns("push_info_card", FALSE, <<CardSkipped(title)>>)
                /\ UNCHANGED <<pushed_cards_tracker, last_card>>
           ELSE /\ pushed_cards_tracker' = pushed_cards_tracker \cup {card_key}
                /\ IF card_type \notin CardTypes
                   THEN /\ tool_reply' = OnToolFailure("push_info_card", CardPushFailed)
                        /\ UNCHANGED last_card
                   ELSE /\ last_card' = ToolCard(title, card_type)
                        /\ tool_reply' =
                                IF broadcast_raises
                                THEN OnToolFailure("push_info_card", CardPushFailed)
                                ELSE ToolReturns("push_info_card", FALSE, <<CardPushed(title)>>)
    /\ UNCHANGED <<tctx, tools_list>>
    /\ UNCHANGED <<exa_result_cache, apc, areq, iterations, intermediate_steps,
                   called, pending, result, alog>>
    /\ UNCHANGED <<regVars, ytVars, audioVars, askVars, monVars, proVars, sendVars, loadVars, wsVars>>

\* The reasoning engine has read the observation.
tool_observed ==
    /\ tool_reply # NoToolReply
    /\ ~tool_reply.raised
    /\ tool_reply' = NoToolReply
    /\ UNCHANGED <<tctx, tools_list, last_card>>
    /\ UNCHANGED notTool

\* ---- main.py, push_commentary, lines 441-471 ----

\* The clock at the time of the request.
ClockMillis == "1762214400000"
ClockHMS == "09:30:00"

ItemIds == {None, Some(""), Some("c-1")}
ItemTimestamps == {None, Some("12:00:00")}

push_commentary(item_id, item_timestamp, item_type) ==
    /\ tool_reply = NoToolReply
    /\ last_card' =
            [path |-> "push_commentary",
             id |-> IF Falsy(item_id) THEN Some("push-" \o ClockMillis) ELSE item_id,
             timestamp |-> IF Falsy(item_timestamp) THEN Some(ClockHMS) ELSE item_timestamp,
             type |-> item_type, title |-> "X"]
    /\ UNCHANGED <<tctx, tools_list, tool_reply>>
    /\ UNCHANGED notTool

InitTools ==
    /\ tctx = NoToolContext
    /\ tools_list = {}
    /\ tool_reply = NoToolReply
    /\ last_card = NoCard

\* The playback positions and captions the requests of this part come with.
ToolTimes == {20, 70}
ToolTranscripts == {l \in FetchedTranscripts : Len(l) <= 1}

\* One request at a time: the stores fill, the tools of a request are made,
\* the reasoning engine invokes them one after the other and reads each
\* observation before the next call.
Idle == tool_reply = NoToolReply

tools_get_video_metadata(description) ==
    Idle /\ get_video_metadata("v1", "Winter Olympics Event", "Unknown", description)

tools_store_transcript(entries) == Idle /\ store_transcript("v1", entries)

NextTools ==
    \/ \E d \in Descriptions : tools_get_video_metadata(d)
    \/ \E entries \in ToolTranscripts : tools_store_transcript(entries)
    \/ \E t \in ToolTimes, s \in Screenshots : setup_context_tools("v1", t, s)
    \/ invoke_get_current_transcript
    \/ invoke_get_current_video_metadata
    \/ \E o \in VisionOutcomes : invoke_analyze_current_frame(o)
    \/ \E s \in EngineScreenshots, o \in VisionOutcomes : invoke_analyze_screenshot(s, o)
    \/ \E c \in Categories, results \in ShortResultLists, o \in SearchToolOutcomes :
            invoke_search_exa(c, results, o)
    \/ \E t \in EngineTitles, c \in EngineCardTypes, raises \in BOOLEAN :
            invoke_push_info_card(t, c, raises)
    \/ tool_observed

\* The search tool alone, with every result list.
NextSearch ==
    \/ \E d \in Descriptions : tools_get_video_metadata(d)
    \/ \E s \in Screenshots : setup_context_tools("v1", 20, s)
    \/ \E c \in Categories, results \in ResultLists, o \in SearchToolOutcomes :
            invoke_search_exa(c, results, o)
    \/ tool_observed

\* The paths that broadcast a card: the tool and the endpoint.
NextPush ==
    \/ \E d \in Descriptions : tools_get_video_metadata(d)
    \/ \E s \in Screenshots : setup_context_tools("v1", 20, s)
    \/ \E t \in EngineTitles, c \in EngineCardTypes, raises \in BOOLEAN :
            invoke_push_info_card(t, c, raises)
    \/ \E i \in ItemIds, ts \in ItemTimestamps, c \in {"analysis", "narration"} :
            push_commentary(i, ts, c)
    \/ tool_observed

C29_VisualToolIffFrame ==
    tctx.set =>
        ((tools_list \cap {"analyze_current_frame", "analyze_screenshot"} # {})
            <=> ~Falsy(tctx.screenshot_base64))

\* The first lines of a text that says there is no transcript.
NoTranscriptHeadings ==
    {"Video information (no transcript available):",
     "No transcript or video information available.",
     NoTranscriptObservation}

\* The text of a transcript window.
TranscriptText(window) ==
    <<"Recent commentary transcript:">> \o [i \in 1..Len(window) |-> FormatEntry(window[i])]

\* C30: the transcript tool answers with the text that says no transcript is
\* available whenever the window of the request's video and playback time is
\* empty, and with transcript text only when the window is not empty.
C30_TranscriptToolExplainsEmptyWindow ==
    tool_reply.tool = "get_current_transcript" =>
        LET window == get_transcript_window(tctx.video_id, tctx.playback_time,
                                            TRANSCRIPT_CONTEXT_SECONDS)
        IN  /\ ~tool_reply.raised /\ ~tool_reply.failed
            /\ window = <<>> =>
                    /\ Head(tool_reply.observation) \in NoTranscriptHeadings
                    /\ \A e \in EntryPool : \A i \in 1..Len(tool_reply.observation) :
                            tool_reply.observation[i] # FormatEntry(e)
            /\ window # <<>> => tool_reply.observation = TranscriptText(window)

\* C30: the tool was asked at a position with an empty window although the
\* video has a transcript.
C30_Witness ==
    /\ tool_reply.tool = "get_current_transcript"
    /\ DictGet(transcripts, tctx.video_id, <<>>) # <<>>
    /\ get_transcript_window(tctx.video_id, tctx.playback_time,
                             TRANSCRIPT_CONTEXT_SECONDS) = <<>>

\* The last tool call was a search that stored its insights.
SearchStored ==
    /\ tool_reply.tool = "search_exa"
    /\ ~tool_reply.failed
    /\ tool_reply.observation # <<NotConfigured>>

\* A result matches the denylist.
MatchesDenylist(r) == is_linkedin(r) \/ is_spam(r) \/ is_business_only(r)

ResultOf(insight) ==
    SearchResult(insight.source_title, insight.source_url, insight.key_points)

\* C23: every result the search caches matches no entry of the denylist,
\* the LinkedIn profile and post entries included, and has a sport signal
\* when the category is "people".
C23_CachedResultsPassFilter ==
    SearchStored =>
        \A i \in 1..Len(get_latest_exa_results(exa_result_cache)) :
            LET r == ResultOf(get_latest_exa_results(exa_result_cache)[i])
            IN  /\ ~MatchesDenylist(r)
                /\ tool_reply.args = <<Some("people")>> => has_sports_content(r)

\* What the filter does keep out: spam and business titles, results of a
\* "people" search without a sport signal, LinkedIn pages of other searches.
CachedResultsPassCodeFilter ==
    SearchStored =>
        \A i \in 1..Len(get_latest_exa_results(exa_result_cache)) :
            LET r == ResultOf(get_latest_exa_results(exa_result_cache)[i])
            IN  /\ ~is_spam(r) /\ ~is_business_only(r)
                /\ tool_reply.args = <<Some("people")>> => has_sports_content(r)
                /\ is_linkedin(r) => tool_reply.args = <<Some("people")>>

\* C26: every card broadcast as PUSH_COMMENTARY carries an id and a
\* timestamp, whichever path built it.
C26_CardCarriesIdAndTimestamp ==
    last_card # NoCard => last_card.id.some /\ last_card.timestamp.some

\* The cards of the push_commentary endpoint do carry both.
EndpointCardCarriesIdAndTimestamp ==
    last_card.path = "push_commentary" =>
        ~Falsy(last_card.id) /\ ~Falsy(last_card.timestamp)

(***************************************************************************)
(* AgentService.start_live_monitoring, start_live_agent, stop_live_agent   *)
(***************************************************************************)

Tasks == 1..MaxTasks
NoTask == 0

NoTaskRecord == [pc |-> "none", video_id |-> "", cancelled |-> FALSE,
                 check_count |-> 0, to_send |-> 0]
NoMonitorLog == [cancelled_by |-> [op |-> "none", video_id |-> ""],
                 unattempted |-> 0, failed_at |-> 0]

\* len() of a text given as its lines: the lines and the "\n" between them.
RECURSIVE TextLen(_)
TextLen(lines) ==
    IF lines = <<>> THEN 0
    ELSE Len(Head(lines)) + (IF Len(lines) > 1 THEN 1 ELSE 0) + TextLen(Tail(lines))

\* Task.cancel(): no effect on a task that is done, else the task gets
\* CancelledError when it is next resumed (it never reads its check_count
\* again, so the model forgets it).
TaskCancel(ts, t) ==
    IF ts[t].pc = "done" THEN ts
    ELSE [ts EXCEPT ![t].cancelled = TRUE, ![t].check_count = 0]

\* start_live_agent, lines 1127-1129
StopPreviousNever(ts, cur) == ts
StopPrevious(ts, cur) ==
    IF cur # NoTask /\ ts[cur].pc # "done" THEN TaskCancel(ts, cur) ELSE ts

\* Who asked for the cancellation of the task that was current.
LogCancel(log, cur, by) ==
    IF cur # NoTask /\ tasks[cur].pc # "done" /\ ~tasks[cur].cancelled
    THEN [log EXCEPT ![cur].cancelled_by = by]
    ELSE log

\* start_live_agent(video_id): it has no await, so it runs in one piece.
start_live_agent(video_id) ==
    /\ \E t \in Tasks : tasks[t].pc = "none"
    /\ LET new == CHOOSE t \in Tasks :
                    tasks[t].pc = "none" /\ \A u \in Tasks : tasks[u].pc = "none" => t <= u
       IN  /\ tasks' = [StopPrevious(tasks, live_monitoring_task) EXCEPT
                            ![new] = [NoTaskRecord EXCEPT !.pc = "created",
                                                          !.video_id = video_id]]
           /\ live_monitoring_task' = new
    /\ mlog' = LogCancel(mlog, live_monitoring_task, [op |-> "start", video_id |-> video_id])
    /\ UNCHANGED notMon

\* stop_live_agent()
stop_live_agent ==
    /\ live_monitoring_task # NoTask
    /\ tasks' = TaskCancel(tasks, live_monitoring_task)
    /\ live_monitoring_task' = NoTask
    /\ mlog' = LogCancel(mlog, live_monitoring_task, [op |-> "stop", video_id |-> ""])
    /\ UNCHANGED notMon

\* The event loop runs what is ready in the order it became ready: the
\* wake-up of a cancelled task is queued by cancel(), so it comes before any
\* step of a task that create_task made afterwards.
Runnable(t) ==
    /\ ~tasks[t].cancelled
    /\ \A u \in Tasks : u < t => ~tasks[u].cancelled

\* The task is run for the first time: up to `await asyncio.sleep`.
monitor_run(t) ==
    /\ tasks[t].pc = "created"
    /\ Runnable(t)
    /\ tasks' = [tasks EXCEPT ![t].pc = "sleeping"]
    /\ UNCHANGED <<live_monitoring_task, mlog>>
    /\ UNCHANGED notMon

\* The task is resumed after cancel(): CancelledError is raised where it is
\* suspended.  In the sleep, `except asyncio.CancelledError` breaks the loop.
\* In a send_json of manager.broadcast, the error passes the `except
\* Exception` of broadcast (CancelledError is a BaseException) and reaches
\* the same branch: the handles after the current one are never sent to.
monitor_cancelled(t) ==
    /\ tasks[t].pc \in {"created", "sleeping", "sending"}
    /\ tasks[t].cancelled
    /\ tasks' = [tasks EXCEPT ![t] = [NoTaskRecord EXCEPT !.pc = "done"]]
    /\ mlog' = [mlog EXCEPT ![t].unattempted =
                    IF tasks[t].pc = "sending" THEN tasks[t].to_send - 1 ELSE 0,
                            ![t].failed_at = 0,
                            ![t].cancelled_by.video_id = ""]
    /\ UNCHANGED live_monitoring_task
    /\ UNCHANGED notMon

\* `except Exception: continue`, lines 1107-1109
OnIterationErrorBreak(task) == [NoTaskRecord EXCEPT !.pc = "done"]
OnIterationError(task) == [task EXCEPT !.pc = "sleeping", !.to_send = 0]

\* The sleep is over: one iteration, up to the first await of the broadcast
\* (or to the next sleep).  `registered` is the number of handles in
\* active_connections at this moment.
monitor_wake(t, registered) ==
    /\ tasks[t].pc = "sleeping"
    /\ Runnable(t)
    /\ tasks[t].check_count < MaxChecks
    /\ LET check_count == tasks[t].check_count + 1
           current_time == check_count * CHECK_INTERVAL
           video_id == tasks[t].video_id
           context_text == get_context_text(video_id, current_time)
       IN  tasks' = [tasks EXCEPT
                ![t].check_count = check_count,
                ![t].pc = IF video_id \in DOMAIN video_metadata
                             /\ TextLen(context_text) > 50 /\ registered > 0
                          THEN "sending" ELSE "sleeping",
                ![t].to_send = IF video_id \in DOMAIN video_metadata
                                  /\ TextLen(context_text) > 50
                               THEN registered ELSE 0]
    /\ UNCHANGED <<live_monitoring_task, mlog>>
    /\ UNCHANGED notMon

\* A send_json of the broadcast is over (its own failure is caught inside
\* broadcast).  Then the for statement goes on to the next handle, or ends
\* and broadcast returns, or raises RuntimeError because the set changed
\* size meanwhile, which the monitor catches.
monitor_sent(t, raised) ==
    /\ tasks[t].pc = "sending"
    /\ Runnable(t)
    /\ IF raised
       THEN /\ tasks' = [tasks EXCEPT ![t] = OnIterationError(@)]
            /\ mlog' = [mlog EXCEPT ![t].failed_at =
                            IF OnIterationError(tasks[t]).pc = "done" THEN 0
                            ELSE IF @ = 0 THEN tasks[t].check_count ELSE @]
       ELSE /\ tasks' = [tasks EXCEPT
                    ![t].to_send = @ - 1,
                    ![t].pc = IF tasks[t].to_send = 1 THEN "sleeping" ELSE "sending"]
            /\ mlog' = mlog
    /\ UNCHANGED live_monitoring_task
    /\ UNCHANGED notMon

InitMonitor ==
    /\ live_monitoring_task = NoTask
    /\ tasks = [t \in Tasks |-> NoTaskRecord]
    /\ mlog = [t \in Tasks |-> NoMonitorLog]

NextMonitor ==
    \/ \E v \in VideoIds : start_live_agent(v)
    \/ stop_live_agent
    \/ \E t \in Tasks : monitor_run(t)
    \/ \E t \in Tasks : monitor_cancelled(t)
    \/ \E t \in Tasks, registered \in 0..MaxHandles : monitor_wake(t, registered)
    \/ \E t \in Tasks, raised \in BOOLEAN : monitor_sent(t, raised)
    \/ \E t \in Titles : get_video_metadata("v1", t, "", "")

\* A monitor that exists, has not ended and has no cancellation pending.
Active(t) == tasks[t].pc \in {"created", "sleeping", "sending"} /\ ~tasks[t].cancelled

\* A monitor that has executed code of start_live_monitoring and not ended.
Running(t) == tasks[t].pc \in {"sleeping", "sending"}

\* C15: after any sequence of start_live_agent and stop_live_agent calls at
\* most one monitor is active for a video id, and when the monitor that a
\* start made for video V runs, every earlier monitor of V has been
\* cancelled.
C15_AtMostOneMonitorPerVideo ==
    \A t \in Tasks, u \in Tasks :
        /\ (Active(t) /\ Active(u) /\ tasks[t].video_id = tasks[u].video_id) => t = u
        /\ (Running(t) /\ ~tasks[t].cancelled /\ u < t /\ Running(u)
                /\ tasks[u].video_id = tasks[t].video_id) => tasks[u].cancelled

\* C15 witness: a running monitor of a video has been cancelled by a start
\* for the same video, and the monitor that start made is active.
C15_Witness ==
    \E old \in Tasks, new \in Tasks :
        /\ old < new
        /\ Running(old) /\ tasks[old].cancelled
        /\ mlog[old].cancelled_by = [op |-> "start", video_id |-> tasks[old].video_id]
        /\ Active(new) /\ tasks[new].video_id = tasks[old].video_id
        /\ live_monitoring_task = new

\* C16: starting the monitor of video V leaves the monitor of a different
\* video W running: a start cancels only a monitor of the video it is for.
C16_StartLeavesOtherVideosRunning ==
    \A t \in Tasks :
        (tasks[t].cancelled /\ mlog[t].cancelled_by.op = "start")
            => mlog[t].cancelled_by.video_id = tasks[t].video_id

\* C17: a cancelled monitor never leaves a partially delivered card: every
\* broadcast it started was attempted on all the handles it was for.
C17_NoPartialBroadcast ==
    \A t \in Tasks : mlog[t].unattempted = 0

\* C18: a failed iteration does not end the monitor: a monitor ends only
\* because it was cancelled, and after a failed iteration it is sleeping
\* before its next iteration.
C18_FailedIterationContinues ==
    /\ \A t \in Tasks : tasks[t].pc = "done" => mlog[t].cancelled_by.op # "none"
    /\ \A t \in Tasks : mlog[t].failed_at > 0 => tasks[t].pc \in {"sleeping", "sending"}

\* C18 witness: a monitor whose iteration failed has executed a later
\* iteration and is not cancelled.
C18_Witness ==
    \E t \in Tasks :
        /\ mlog[t].failed_at > 0
        /\ tasks[t].check_count > mlog[t].failed_at
        /\ Active(t)

(***************************************************************************)
(* main.py: the POST /question handler ask_question                        *)
(***************************************************************************)

NoResponse == [status |-> 0, detail |-> "", answer |-> "", audio_url |-> None,
               transcript_context |-> <<>>]

\* error_message: data["message"] of the ERROR event the handler broadcast.
NoAskLog == [tts |-> "none", stored |-> FALSE, broadcast_raised |-> FALSE, error_message |-> ""]

\* The exception the for statement of broadcast raises when the registry
\* changed during the iteration, and str(e) of an exception with one argument.
SetChangedSize == [type |-> "RuntimeError", args |-> <<"Set changed size during iteration">>]
Str(e) == IF Len(e.args) = 1 THEN e.args[1] ELSE ""

\* The body of the 500 response of the framework for an error that leaves a handler.
InternalServerError == "Internal Server Error"

\* data={"message": str(e)} and HTTPException(status_code=500, detail=str(e))
ErrorText(e) == Str(e)

\* audio_url = f"/audio/{audio_id}" if audio_id else None
AudioUrl(audio_id) ==
    IF audio_id.some /\ audio_id.v # "" THEN Some("/audio/" \o audio_id.v) ELSE None

\* The handler is called: it awaits the broadcast of PROCESSING_START.
ask_question(r, video_id, athlete, playback_time) ==
    /\ hpc[r] = "idle"
    /\ hreq' = [hreq EXCEPT ![r] = [video_id |-> video_id, athlete |-> athlete,
                                     playback_time |-> playback_time]]
    /\ hevents' = [hevents EXCEPT ![r] = Append(@, "PROCESSING_START")]
    /\ hpc' = [hpc EXCEPT ![r] = "start_broadcast"]
    /\ UNCHANGED <<hresp, hlog, audioVars>>
    /\ UNCHANGED notAsk

\* That broadcast returned, and the handler calls answer_question; or it
\* raised, outside the try block, and the error leaves the handler.
ask_start_done(r, raised) ==
    /\ hpc[r] = "start_broadcast"
    /\ IF raised
       THEN /\ hpc' = [hpc EXCEPT ![r] = "failed"]
            /\ hresp' = [hresp EXCEPT ![r] = [NoResponse EXCEPT !.status = 500,
                                                               !.detail = InternalServerError]]
            /\ hlog' = [hlog EXCEPT ![r].broadcast_raised = TRUE]
       ELSE /\ hpc' = [hpc EXCEPT ![r] = "answering"]
            /\ UNCHANGED <<hresp, hlog>>
    /\ UNCHANGED <<hreq, hevents, audioVars>>
    /\ UNCHANGED notAsk

\* answer_question returned: the handler awaits text_to_speech(answer).
ask_answered(r) ==
    /\ hpc[r] = "answering"
    /\ apc[r] = "returned"
    /\ hpc' = [hpc EXCEPT ![r] = "tts"]
    /\ UNCHANGED <<hreq, hevents, hresp, hlog, audioVars>>
    /\ UNCHANGED notAsk

\* text_to_speech returned (it never raises): lines 321-334, up to the
\* await of the PROCESSING_COMPLETE broadcast.
ask_tts_done(r, outcome, content) ==
    /\ hpc[r] = "tts"
    /\ TextToSpeech(outcome, content)
    /\ hresp' = [hresp EXCEPT ![r] =
            [status |-> 0,
             detail |-> "",
             answer |-> result[r].answer,
             audio_url |-> AudioUrl(TextToSpeechResult(outcome)),
             transcript_context |->
                get_transcript_window(hreq[r].video_id, hreq[r].playback_time,
                                      TRANSCRIPT_WINDOW_SECONDS)]]
    /\ hlog' = [hlog EXCEPT ![r].tts = outcome,
                            ![r].stored = (TextToSpeechCache(outcome, content) # audio_cache)]
    /\ hevents' = [hevents EXCEPT ![r] = Append(@, "PROCESSING_COMPLETE")]
    /\ hpc' = [hpc EXCEPT ![r] = "complete_broadcast"]
    /\ UNCHANGED <<hreq, audio_reply>>
    /\ UNCHANGED notAsk

\* The PROCESSING_COMPLETE broadcast returned: the response is returned.  Or
\* it raised: the except branch awaits the broadcast of ERROR.
ask_complete_done(r, raised) ==
    /\ hpc[r] = "complete_broadcast"
    /\ IF raised
       THEN /\ hevents' = [hevents EXCEPT ![r] = Append(@, "ERROR")]
            /\ hpc' = [hpc EXCEPT ![r] = "error_broadcast"]
            /\ hlog' = [hlog EXCEPT ![r].broadcast_raised = TRUE,
                                    ![r].error_message = ErrorText(SetChangedSize)]
            /\ hresp' = hresp
       ELSE /\ hresp' = [hresp EXCEPT ![r].status = 200]
            /\ hpc' = [hpc EXCEPT ![r] = "responded"]
            /\ UNCHANGED <<hevents, hlog>>
    /\ UNCHANGED <<hreq, audioVars>>
    /\ UNCHANGED notAsk

\* The ERROR broadcast returned or raised: either way the handler ends with
\* an error (HTTPException 500, or the error of the broadcast).
ask_error_done(r, raised) ==
    /\ hpc[r] = "error_broadcast"
    /\ hresp' = [hresp EXCEPT ![r] =
            [NoResponse EXCEPT !.status = 500,
                               !.detail = IF raised THEN InternalServerError
                                          ELSE ErrorText(SetChangedSize)]]
    /\ hpc' = [hpc EXCEPT ![r] = "failed"]
    /\ UNCHANGED <<hreq, hevents, hlog, audioVars>>
    /\ UNCHANGED notAsk

InitAsk ==
    /\ hpc = [r \in Requests |-> "idle"]
    /\ hreq = [r \in Requests |-> [video_id |-> "", athlete |-> FALSE, playback_time |-> 0]]
    /\ hevents = [r \in Requests |-> <<>>]
    /\ hresp = [r \in Requests |-> NoResponse]
    /\ hlog = [r \in Requests |-> NoAskLog]

\* One question through the handler; the engine answers without tools.
NextAsk ==
    \/ \E v \in {"", "v1"}, athlete \in BOOLEAN, t \in CenterTimes :
            ask_question(1, v, athlete, t)
    \/ \E raised \in BOOLEAN : ask_start_done(1, raised)
    \/ hpc[1] = "answering" /\ answer_start(1, hreq[1].video_id, hreq[1].athlete)
    \/ \E failed \in BOOLEAN, t \in Titles : metadata_fetched(1, failed, t)
    \/ \E raised \in BOOLEAN : status_broadcast_done(1, raised)
    \/ \E text \in AnswerTexts : engine_finish(1, text)
    \/ engine_fail(1)
    \/ ask_answered(1)
    \/ \E outcome \in SynthesisOutcomes, content \in AudioContents :
            ask_tts_done(1, outcome, content)
    \/ \E raised \in BOOLEAN : ask_complete_done(1, raised)
    \/ \E raised \in BOOLEAN : ask_error_done(1, raised)

\* The fixed sentences the program has for a failure.
FriendlySentences ==
    {FallbackAnswer, MetadataErrorAnswer, InternalServerError}

\* C25: the ERROR event and the rejection of a failed question carry a fixed
\* friendly sentence, never text of the exception raised.
C25_NoDiagnosticDetail ==
    \A r \in Requests :
        /\ hlog[r].error_message # "" => hlog[r].error_message \in FriendlySentences
        /\ hresp[r].status = 500 => hresp[r].detail \in FriendlySentences

\* C14: when the synthesis failed, the handler stored nothing in the audio
\* cache, never broadcasts ERROR, and ends by returning the text answer with
\* an absent audio reference.
C14_SynthesisFailureNonFatal ==
    \A r \in Requests :
        hlog[r].tts \in {"401", "exception"} =>
            /\ ~hlog[r].stored
            /\ hevents[r] = <<"PROCESSING_START", "PROCESSING_COMPLETE">>
            /\ hpc[r] \in {"complete_broadcast", "responded"}
            /\ hresp[r].answer = result[r].answer
            /\ hresp[r].audio_url = None

\* The same, for the handlers none of whose broadcasts raised.
SynthesisFailureNonFatalWithoutRaise ==
    \A r \in Requests :
        (hlog[r].tts \in {"401", "exception"} /\ ~hlog[r].broadcast_raised) =>
            /\ ~hlog[r].stored
            /\ hevents[r] = <<"PROCESSING_START", "PROCESSING_COMPLETE">>
            /\ hpc[r] \in {"complete_broadcast", "responded"}
            /\ hresp[r].answer = result[r].answer
            /\ hresp[r].audio_url = None

\* One request whose engine asks for at most MaxToolCalls tools.
NextRequest ==
    \/ \E v \in {"", "v1"}, athlete \in BOOLEAN : answer_start(1, v, athlete)
    \/ \E failed \in BOOLEAN, t \in Titles : metadata_fetched(1, failed, t)
    \/ \E raised \in BOOLEAN : status_broadcast_done(1, raised)
    \/ \E text \in AnswerTexts : engine_finish(1, text)
    \/ engine_fail(1)
    \/ \E calls \in StepOutputs : engine_act(1, calls, MaxToolCalls - intermediate_steps[1])
    \/ \E i \in 1..MaxActionsPerStep :
            \E outcome \in {"unavailable", "none", "found"} : search_exa(1, i, outcome)
    \/ \E i \in 1..MaxActionsPerStep : push_info_card(1, i)
    \/ \E i \in 1..MaxActionsPerStep, raised \in BOOLEAN : push_info_card_done(1, i, raised)

(***************************************************************************)
(* main.py: the POST /video/load handler load_video                        *)
(***************************************************************************)

\* [a-zA-Z0-9_-]
DIGITS == "0123456789"
IsIdChar(c) ==
    \/ \E i \in 1..Len(LOWER) : SubSeq(LOWER, i, i) = c
    \/ \E i \in 1..Len(UPPER) : SubSeq(UPPER, i, i) = c
    \/ \E i \in 1..Len(DIGITS) : SubSeq(DIGITS, i, i) = c
    \/ c = "_" \/ c = "-"

\* ([a-zA-Z0-9_-]{11}) at position p of url
IdAt(url, p) ==
    /\ p + 10 <= Len(url)
    /\ \A i \in p..(p + 10) : IsIdChar(SubSeq(url, i, i))

\* prefix occurs in url at position p
PrefixAt(url, p, prefix) ==
    /\ p + Len(prefix) - 1 <= Len(url)
    /\ SubSeq(url, p, p + Len(prefix) - 1) = prefix

\* re.search(prefix-alternatives followed by the group, url): the group of
\* the leftmost match, the alternatives tried in their order.
SearchAfter(url, prefixes) ==
    LET hit(p) == {j \in 1..Len(prefixes) :
                        PrefixAt(url, p, prefixes[j]) /\ IdAt(url, p + Len(prefixes[j]))}
        starts == {p \in 1..Len(url) : hit(p) # {}}
    IN  IF starts = {} THEN None
        ELSE LET p == CHOOSE q \in starts : \A o \in starts : q <= o
                 j == CHOOSE a \in hit(p) : \A b \in hit(p) : a <= b
                 g == p + Len(prefixes[j])
             IN  Some(SubSeq(url, g, g + 10))

\* re.search(r'^([a-zA-Z0-9_-]{11})$', url): `$` also matches before a
\* newline that ends the string.
SearchWhole(url) ==
    IF IdAt(url, 1) /\ (Len(url) = 11 \/ (Len(url) = 12 /\ SubSeq(url, 12, 12) = "\n"))
    THEN Some(SubSeq(url, 1, 11)) ELSE None

\* YouTubeService.extract_video_id, youtube_service.py lines 17-29
ExtractVideoId(url) ==
    LET m1 == SearchAfter(url, <<"youtube.com/watch?v=", "youtu.be/",
                                 "youtube.com/embed/", "youtube.com/v/">>)
        m2 == SearchAfter(url, <<"youtube.com/live/">>)
        m3 == SearchWhole(url)
    IN  IF m1.some THEN m1 ELSE IF m2.some THEN m2 ELSE m3

\* The urls the requests of the model carry.
Urls == {
    "https://www.youtube.com/watch?v=dQw4w9WgXcQ",
    "https://youtu.be/dQw4w9WgXcQ?t=10",
    "https://www.youtube.com/live/abc_DEF-123",
    "dQw4w9WgXcQ",
    "https://www.youtube.com/watch?v=tooshort",
    "https://www.youtube.com/playlist?list=PL1",
    "https://vimeo.com/123456789012",
    "" }

\* extract_video_id of those urls, computed once.
extract_video_id == [url \in Urls |-> ExtractVideoId(url)]

\* `if not video_id:` of load_video
RejectsNever(video_id) == FALSE
Rejects(video_id) == Falsy(video_id)

InvalidUrlDetail == "Invalid YouTube URL. Please provide a valid video or livestream URL."

\* The message of the response, lines 261-267.
LoadMessage(transcript, has_captions) ==
    IF has_captions
    THEN "Loaded video with " \o ToString(Len(transcript)) \o " transcript segments."
    ELSE IF ~has_captions /\ Len(transcript) = 0
    THEN "Live stream detected. Transcript will be generated in real-time."
    ELSE "No captions available. Using video title and description for context."

Stores == [video_metadata |-> video_metadata, transcripts |-> transcripts]

NoLoad == [pc |-> "idle", url |-> "", status |-> 0, detail |-> "", video_id |-> None,
           message |-> "", metadata_fetches |-> 0, transcript_fetches |-> 0,
           tasks_started |-> 0, before |-> [video_metadata |-> <<>>, transcripts |-> <<>>],
           research |-> "none"]

\* The handler is called: it rejects the url, or goes on to the await of
\* get_video_metadata.
load_video(url) ==
    /\ load.pc # "fetching"
    /\ LET video_id == extract_video_id[url]
       IN  load' = IF Rejects(video_id)
                   THEN [NoLoad EXCEPT !.pc = "rejected", !.url = url, !.status = 400,
                                       !.detail = InvalidUrlDetail, !.before = Stores]
                   ELSE [NoLoad EXCEPT !.pc = "fetching", !.url = url,
                                       !.video_id = video_id, !.before = Stores]
    /\ UNCHANGED ytVars
    /\ UNCHANGED notLoad

\* get_video_metadata returned (it stores what it got): lines 256-281, the
\* transcript fetch, the background task and the response.  fetch_transcript
\* stores the captions it found, or returns ([], False).
load_video_fetched(title, description, captions) ==
    /\ load.pc = "fetching"
    /\ LET video_id == load.video_id.v
           metadata == [video_id |-> video_id, title |-> title, author |-> "Unknown",
                        description |-> description, thumbnail |-> ""]
           has_captions == captions # <<>>
       IN  /\ video_metadata' = DictSet(video_metadata, video_id, metadata)
           /\ transcripts' = IF has_captions THEN DictSet(transcripts, video_id, captions)
                                              ELSE transcripts
           /\ transcript_ids' = IF has_captions
                                 THEN DictSet(transcript_ids, video_id, NewList(video_id))
                                 ELSE transcript_ids
           /\ load' = [load EXCEPT !.pc = "responded", !.status = 200,
                                   !.message = LoadMessage(captions, has_captions),
                                   !.metadata_fetches = 1, !.transcript_fetches = 1,
                                   !.tasks_started = 1, !.research = "created"]
    /\ UNCHANGED yt_reply
    /\ UNCHANGED notLoad

InitLoad == load = NoLoad

NextLoad ==
    \/ \E url \in Urls : load_video(url)
    \/ \E t \in Titles, d \in Descriptions, captions \in ToolTranscripts :
            load_video_fetched(t, d, captions)

\* C28: load_video with a url that yields no video id is rejected at once:
\* it makes no metadata or transcript fetch, changes no store and starts no
\* background task.
C28_BadUrlRejectedBeforeAnyWork ==
    (load.pc # "idle" /\ ~extract_video_id[load.url].some) =>
        /\ load.pc = "rejected"
        /\ load.status = 400
        /\ load.metadata_fetches = 0
        /\ load.transcript_fetches = 0
        /\ load.tasks_started = 0
        /\ Stores = load.before

\* C28: a url without a video id was rejected after an earlier load had
\* filled the stores.
C28_Witness ==
    /\ load.pc = "rejected"
    /\ load.url = "https://www.youtube.com/watch?v=tooshort"
    /\ DOMAIN video_metadata # {}
    /\ DOMAIN transcripts # {}

(***************************************************************************)
(* agent_service.py, get_current_video_metadata called for any video id    *)
(***************************************************************************)

\* _setup_context_tools, lines 454-574, called with a video id of the
\* caller's choice: the method itself does not look at the metadata store.
setup_context_tools_for(video_id, playback_time, screenshot_base64) ==
    /\ tool_reply = NoToolReply
    /\ tctx' = [set |-> TRUE, video_id |-> video_id, playback_time |-> playback_time,
                screenshot_base64 |-> screenshot_base64]
    /\ tools_list' = SetupContextTools(screenshot_base64)
    /\ tool_reply' = NoToolReply
    /\ UNCHANGED last_card
    /\ UNCHANGED notTool

NextMetadataTool ==
    \/ \E d \in Descriptions : tools_get_video_metadata(d)
    \/ \E entries \in ToolTranscripts : tools_store_transcript(entries)
    \/ \E v \in VideoIds, t \in ToolTimes, s \in Screenshots :
            setup_context_tools_for(v, t, s)
    \/ invoke_get_current_video_metadata
    \/ tool_observed

\* The text of the labeled fallback of get_current_video_metadata.
MetadataUnavailable ==
    "Metadata temporarily unavailable. You can still search for information about this event."

\* C31: the metadata tool returns the stored title, author and description
\* when metadata is stored for its video id, and otherwise returns, without
\* raising, the labeled fallback (author "Unknown", the unavailable notice).
C31_MetadataToolCachedOrFallback ==
    tool_reply.tool = "get_current_video_metadata" =>
        /\ ~tool_reply.raised
        /\ LET metadata == DictGet(video_metadata, tctx.video_id, [k \in {} |-> ""])
           IN  IF DOMAIN metadata # {}
               THEN tool_reply.observation =
                        JsonDumps(metadata["title"], metadata["author"],
                                  metadata["description"])
               ELSE /\ Len(tool_reply.observation) = 5
                    /\ tool_reply.observation[3] = "  \"author\": \"Unknown\","
                    /\ tool_reply.observation[4] =
                            "  \"description\": \"" \o MetadataUnavailable \o "\""

\* C31: the stored branch of the metadata tool, which returns the stored
\* fields whenever the tool is called for a video with stored metadata.
MetadataToolReturnsStored ==
    (tool_reply.tool = "get_current_video_metadata"
        /\ tctx.video_id \in DOMAIN video_metadata) =>
            /\ ~tool_reply.raised
            /\ tool_reply.observation =
                    JsonDumps(video_metadata[tctx.video_id]["title"],
                              video_metadata[tctx.video_id]["author"],
                              video_metadata[tctx.video_id]["description"])

(***************************************************************************)
(* agent_service.py, start_live_monitoring: when a card is broadcast       *)
(***************************************************************************)

\* The transcript window get_context_text reads in the iteration that
\* monitor t is about to run (lines 1068-1084, youtube_service.py line 90).
IterationWindow(t) ==
    get_transcript_window(tasks[t].video_id,
                          (tasks[t].check_count + 1) * CHECK_INTERVAL,
                          TRANSCRIPT_CONTEXT_SECONDS)

\* C32: an iteration of the live monitor broadcasts its "Live Update" card
\* only if the transcript window it read for the video is not empty.
C32_LiveUpdateOnlyWithTranscript ==
    [][\A t \in Tasks :
        (tasks[t].pc = "sleeping" /\ tasks'[t].to_send > 0) => IterationWindow(t) # <<>>]_vars

(***************************************************************************)
(* YouTubeService: store and append for several video ids                  *)
(***************************************************************************)

\* YouTubeService.store_transcript called with the list object that the
\* dict already holds under `held`: the list the caller stored there, or the
\* one get_full_transcript(held) returned.
store_transcript_held(video_id, held) ==
    /\ yt_reply = NoReply
    /\ held \in DOMAIN transcripts
    /\ transcripts' = DictSet(transcripts, video_id, transcripts[held])
    /\ transcript_ids' = DictSet(transcript_ids, video_id, transcript_ids[held])
    /\ yt_reply' = NoReply
    /\ UNCHANGED video_metadata
    /\ UNCHANGED notYt

\* The segment sequences the callers of this part build.
StoredSequences == {l \in FetchedTranscripts : Len(l) <= 1}

NextStore ==
    \/ \E v \in VideoIds, entries \in StoredSequences : store_transcript(v, entries)
    \/ \E v \in VideoIds, held \in VideoIds : store_transcript_held(v, held)
    \/ \E v \in VideoIds, entry \in EntryPool : add_live_transcript_entry(v, entry)

\* The video ids whose full transcript differs between two stores.
ChangedTranscripts(before, after) ==
    {v \in VideoIds : DictGet(before, v, <<>>) # DictGet(after, v, <<>>)}

\* C33: transcript lists are per video: a store or an append for one video
\* id leaves the full transcript (and so every window) of every other video
\* id unchanged, also after the same sequence was stored under both ids.
C33_TranscriptsArePerVideo ==
    [][Cardinality(ChangedTranscripts(transcripts, transcripts')) <= 1]_vars

(***************************************************************************)
(* main.py, get_transcript: GET /transcript/{video_id}                     *)
(***************************************************************************)

\* The start_time and end_time query parameters (end_time defaults to None,
\* start_time to 0).
StartTimes == {0, 20, 45}
EndTimes == {None, Some(0), Some(40), Some(70)}

TranscriptNotFound == "Transcript not found. Please load the video first."

\* The list comprehension of lines 374-377
TimeRange(transcript, start_time, end_time) ==
    SelectSeq(transcript, LAMBDA entry : start_time <= entry.start /\ entry.start <= end_time)

\* entry.model_dump(): the dict of the entry's fields
ModelDump(entry) == [k \in {"start", "duration", "text"} |-> entry[k]]

\* get_transcript, lines 350-383
get_transcript(video_id, start_time, end_time) ==
    /\ yt_reply = NoReply
    /\ LET full == DictGet(transcripts, video_id, <<>>)
           transcript == IF end_time.some THEN TimeRange(full, start_time, end_time.v)
                                          ELSE full
       IN  yt_reply' =
                IF full = <<>>
                THEN [op |-> "get_transcript", video_id |-> video_id,
                      start_time |-> start_time, end_time |-> end_time,
                      status |-> 404, detail |-> TranscriptNotFound, entries |-> <<>>,
                      total_entries |-> 0]
                ELSE [op |-> "get_transcript", video_id |-> video_id,
                      start_time |-> start_time, end_time |-> end_time,
                      status |-> 200, detail |-> "",
                      entries |-> [i \in 1..Len(transcript) |-> ModelDump(transcript[i])],
                      total_entries |-> Len(transcript)]
    /\ UNCHANGED <<transcripts, transcript_ids, video_metadata>>
    /\ UNCHANGED notYt

NextTranscript ==
    \/ \E entries \in FetchedTranscripts : store_transcript("v1", entries)
    \/ \E entry \in EntryPool : add_live_transcript_entry("v1", entry)
    \/ \E v \in VideoIds, s \in StartTimes, e \in EndTimes : get_transcript(v, s, e)
    \/ yt_return

\* C34: get_transcript returns only entries inside the requested range:
\* every returned entry starts at or after start_time, and at or before
\* end_time when one is given; without a stored transcript it answers 404.
C34_TranscriptRange ==
    yt_reply.op = "get_transcript" =>
        /\ yt_reply.video_id \notin DOMAIN transcripts => yt_reply.status = 404
        /\ \A i \in 1..Len(yt_reply.entries) :
                /\ yt_reply.entries[i].start >= yt_reply.start_time
                /\ yt_reply.end_time.some =>
                        yt_reply.entries[i].start <= yt_reply.end_time.v

\* C34: with an end_time the returned entries lie in [start_time, end_time],
\* and a video without stored transcript is answered with 404.
TranscriptRangeWithEnd ==
    (yt_reply.op = "get_transcript" /\ yt_reply.end_time.some) =>
        /\ yt_reply.video_id \notin DOMAIN transcripts => yt_reply.status = 404
        /\ \A i \in 1..Len(yt_reply.entries) :
                /\ yt_reply.entries[i].start >= yt_reply.start_time
                /\ yt_reply.entries[i].start <= yt_reply.end_time.v

(***************************************************************************)
(* main.py, research_video_context_background: the task load_video starts  *)
(***************************************************************************)

\* The methods of class AgentService (agent_service.py, lines 421-1110).
AgentServiceMethods ==
    {"__init__", "_setup_llm", "_setup_tools", "_setup_context_tools", "_create_agent",
     "answer_question", "proactive_video_research", "start_live_monitoring"}

\* The task of the last load_video runs.  Line 162 reads
\* agent_service.research_video_context: AttributeError, caught at 217-218;
\* the task prints and ends, and nothing has been stored.
research_video_context_background ==
    /\ load.pc = "responded"
    /\ load.research = "created"
    /\ "research_video_context" \notin AgentServiceMethods
    /\ load' = [load EXCEPT !.research = "failed"]
    /\ UNCHANGED ytVars
    /\ UNCHANGED notLoad

\* load_video is called again when the task of the last call has run.
NextResearch ==
    \/ \E url \in Urls : load.research # "created" /\ load_video(url)
    \/ \E t \in Titles : load_video_fetched(t, "", <<>>)
    \/ research_video_context_background

\* The event loop runs a task that is ready.
FairResearch == WF_vars(research_video_context_background)

\* The titles of load_video's videos in which proactive_video_research
\* finds a sport keyword.
SportTitles == {t \in Titles : SportContext(lower(t)).some}

\* The video ids of the urls.
LoadedIds == {extract_video_id[url].v : url \in {u \in Urls : extract_video_id[u].some}}

\* C35: after load_video has succeeded for a video whose title holds a sport
\* keyword, the research task it started eventually stores the summary for
\* that video id in the per-video cache.
C35_ResearchTaskStoresSummary ==
    \A v \in LoadedIds :
        (load.pc = "responded" /\ load.video_id = Some(v)
            /\ video_metadata[v].title \in SportTitles)
        ~> (v \in DOMAIN video_context_cache)

\* C35: load_video answers 200 with its task started, whatever the task
\* does later.
LoadAnswersBeforeResearch ==
    load.research # "none" => (load.pc = "responded" /\ load.status = 200)

(***************************************************************************)
(* agent_service.py, answer_question: a request without video id           *)
(***************************************************************************)

\* C36: a request rejected for an empty video_id leaves the shared state
\* as it was: the dedup tracker, the search-result cache, the per-video
\* cache and the transcript and metadata stores.
C36_RejectedRequestChangesNothing ==
    [][\A r \in Requests :
        (apc[r] = "idle" /\ apc'[r] = "returned" /\ NotVideoId(areq'[r].video_id)) =>
            UNCHANGED <<pushed_cards_tracker, exa_result_cache, video_context_cache,
                        transcripts, video_metadata>>]_vars

(***************************************************************************)
(* main.py, ask_question: the order of the events of a request             *)
(***************************************************************************)

\* The positions of the terminal events among the events of request r.
TerminalEvents(r) ==
    {i \in 1..Len(hevents[r]) : hevents[r][i] \in {"PROCESSING_COMPLETE", "ERROR"}}

\* C37: the events broadcast for an ask_question request are
\* PROCESSING_START first, then its cards, then exactly one terminal event,
\* PROCESSING_COMPLETE or ERROR and never both, with nothing after it.
C37_EventsEndWithOneTerminal ==
    \A r \in Requests :
        /\ hevents[r] # <<>> => hevents[r][1] = "PROCESSING_START"
        /\ Cardinality(TerminalEvents(r)) <= 1
        /\ \A i \in TerminalEvents(r) : i = Len(hevents[r])
        /\ hpc[r] \in {"responded", "failed"} => Cardinality(TerminalEvents(r)) = 1

\* C37: the part about both terminal events alone: PROCESSING_COMPLETE and
\* ERROR are never both broadcast for one request.
NeverBothTerminals ==
    \A r \in Requests : Cardinality(TerminalEvents(r)) <= 1

(***************************************************************************)
(* main.py, websocket_events: the QUESTION branch                          *)
(***************************************************************************)

notWs == <<regVars, ytVars, agentVars, audioVars, askVars, monVars, proVars, sendVars,
           toolVars, loadVars>>

NoQuestion == [pc |-> "receiving", video_id |-> "", collaborators_ok |-> FALSE,
               sent |-> <<>>, answer |-> "", error_message |-> ""]

\* The parameters of GeminiService.answer_question (gemini_service.py,
\* lines 52-57) and the keywords of the call at main.py, lines 567-570.
AnswerQuestionParameters == {"question", "transcript_context", "sport_type"}
AnswerQuestionKeywords == {"question", "context_text"}

\* Python binds a call's keyword arguments to parameters of these names,
\* or raises TypeError (the function has no **kwargs).
Binds(keywords, parameters) == keywords \subseteq parameters
UnexpectedKeyword(keywords, parameters) ==
    "GeminiService.answer_question() got an unexpected keyword argument '"
        \o (CHOOSE k \in keywords \ parameters : TRUE) \o "'"

\* gemini_service.answer_question, lines 84-95: the text of the model, or
\* one of its two sentences.
ReasoningOutcomes == {"text", "no_text", "exception"}
GeminiAnswer(outcome) ==
    CASE outcome = "text" -> "The skier is on the second run."
      [] outcome = "no_text" ->
            "I apologize, but I couldn't generate a response. Could you please rephrase your question?"
      [] outcome = "exception" ->
            "I'm having trouble processing your question right now. Please try again in a moment."

\* A QUESTION message is received from socket h: lines 544-552, up to the
\* await of the send of PROCESSING_START.  send_message sends to this socket
\* only and swallows a failure of the send.
ws_question(h, video_id) ==
    /\ ws[h].pc \in {"receiving", "complete_sent"}
    /\ ws' = [ws EXCEPT ![h] = [NoQuestion EXCEPT !.pc = "start_sent",
                                                   !.video_id = video_id,
                                                   !.sent = <<"PROCESSING_START">>]]
    /\ UNCHANGED notWs

\* The try block, lines 554-597, up to the await of its last send.
\* `reasoning` and `synthesis` are what the collaborators would answer.
ws_try(h, reasoning, synthesis, content) ==
    /\ ws[h].pc = "start_sent"
    /\ IF Binds(AnswerQuestionKeywords, AnswerQuestionParameters)
       THEN /\ TextToSpeech(synthesis, content)
            /\ UNCHANGED audio_reply
            /\ ws' = [ws EXCEPT ![h].pc = "response_sent",
                                ![h].collaborators_ok = (reasoning = "text" /\ synthesis = "200"),
                                ![h].answer = GeminiAnswer(reasoning),
                                ![h].sent = Append(@, "AUDIO_RESPONSE")]
       ELSE /\ UNCHANGED audioVars
            /\ ws' = [ws EXCEPT ![h].pc = "response_sent",
                                ![h].collaborators_ok = (reasoning = "text" /\ synthesis = "200"),
                                ![h].error_message =
                                    UnexpectedKeyword(AnswerQuestionKeywords,
                                                      AnswerQuestionParameters),
                                ![h].sent = Append(@, "ERROR")]
    /\ UNCHANGED <<regVars, ytVars, agentVars, askVars, monVars, proVars, sendVars,
                   toolVars, loadVars>>

\* The finally block, lines 599-605: the send of PROCESSING_COMPLETE.
ws_finally(h) ==
    /\ ws[h].pc = "response_sent"
    /\ ws' = [ws EXCEPT ![h].pc = "complete_sent",
                        ![h].sent = Append(@, "PROCESSING_COMPLETE")]
    /\ UNCHANGED notWs

InitWs == ws = [h \in Handles |-> NoQuestion]

NextWs ==
    \/ \E h \in Handles, v \in VideoIds : ws_question(h, v)
    \/ \E h \in Handles, reasoning \in ReasoningOutcomes, synthesis \in SynthesisOutcomes,
          content \in AudioContents : ws_try(h, reasoning, synthesis, content)
    \/ \E h \in Handles : ws_finally(h)

\* C38: for a QUESTION whose reasoning and synthesis collaborators respond
\* successfully the asking client is sent PROCESSING_START, AUDIO_RESPONSE
\* with the answer and PROCESSING_COMPLETE, and no ERROR; in every case
\* PROCESSING_COMPLETE is the last event of the question.
C38_QuestionEvents ==
    \A h \in Handles :
        ws[h].pc = "complete_sent" =>
            /\ ws[h].sent[Len(ws[h].sent)] = "PROCESSING_COMPLETE"
            /\ ws[h].collaborators_ok =>
                    /\ ws[h].sent = <<"PROCESSING_START", "AUDIO_RESPONSE",
                                      "PROCESSING_COMPLETE">>
                    /\ ws[h].answer = GeminiAnswer("text")

\* C38: the part about the last event alone: PROCESSING_COMPLETE ends the
\* events of every question, and only then.
CompleteIsLast ==
    \A h \in Handles : \A i \in 1..Len(ws[h].sent) :
        ws[h].sent[i] = "PROCESSING_COMPLETE" <=>
            (ws[h].pc = "complete_sent" /\ i = Len(ws[h].sent))

(***************************************************************************)
(* agent_service.py, push_info_card: what makes a call a duplicate         *)
(***************************************************************************)

\* C39: within one request push_info_card returns the duplicate observation
\* for a key only if an earlier call of the request with that key performed
\* its broadcast; a call that ended with "push failed" does not make a
\* later call with the same key a duplicate.
C39_DuplicateOnlyAfterBroadcast ==
    \A r \in Requests :
        alog[r].alone =>
            \A i \in PushesRun(r) :
                pending[r][i].obs = DuplicateObservation(pending[r][i].title) =>
                    alog[r].broadcasts[CardKey(pending[r][i].title,
                                               pending[r][i].card_type)] >= 1

Init == InitRegistry /\ InitYouTube /\ InitAgent /\ InitAudio /\ InitAsk /\ InitMonitor /\ InitProactive /\ InitSend /\ InitTools /\ InitLoad /\ InitWs

SpecRegistry == Init /\ [][NextRegistry]_vars

SpecAlone == Init /\ [][NextAlone]_vars

SpecYouTube == Init /\ [][NextYouTube]_vars

SpecCards == Init /\ [][NextCards]_vars

SpecAnswer == Init /\ [][NextAnswer]_vars

SpecRequest == Init /\ [][NextRequest]_vars

SpecAudio == Init /\ [][NextAudio]_vars

SpecAsk == Init /\ [][NextAsk]_vars

SpecMonitor == Init /\ [][NextMonitor]_vars

SpecProactive == Init /\ [][NextProactive]_vars

SpecSend == Init /\ [][NextSend]_vars

SpecTools == Init /\ [][NextTools]_vars

SpecLoad == Init /\ [][NextLoad]_vars

SpecSearch == Init /\ [][NextSearch]_vars

SpecPush == Init /\ [][NextPush]_vars

SpecSlow == Init /\ [][NextSlow]_vars /\ FairSlow

SpecMetadataTool == Init /\ [][NextMetadataTool]_vars

SpecStore == Init /\ [][NextStore]_vars

SpecTranscript == Init /\ [][NextTranscript]_vars

SpecResearch == Init /\ [][NextResearch]_vars /\ FairResearch

SpecWs == Init /\ [][NextWs]_vars

Spec == SpecRegistry

=============================================================================
